---------------------------- MODULE Spec2Model ----------------------------
(***************************************************************************)
(* greenlight: the versioned movie store (internal/data/movies.go) and the *)
(* per-client rate limiter (cmd/api middleware).                           *)
(*                                                                         *)
(* SpecStore   : callers running Insert/Get/GetAll/Update/Delete against   *)
(*               one movies table, each call under its 3-second context.   *)
(* SpecLimiter : request goroutines passing through rateLimiter, and the   *)
(*               background sweep goroutine, sharing mu and clients.       *)
(* SpecRate    : the same with one request goroutine and two identities.   *)
(* SpecAuth    : one request through authenticate and the require* guards. *)
(* SpecChain   : requests through recoverPanic, metrics and rateLimiter.   *)
(* SpecServe   : serve(), its shutdown goroutine, signals and connections. *)
(***************************************************************************)
EXTENDS Integers, Sequences, FiniteSets, TLC

VARIABLES
    movies,     \* the movies table: id -> row, or NoRow
    nextID,     \* the bigserial sequence behind movies.id
    call,       \* per caller: the MovieModel call it is in (or was last in)
    elapsed,    \* per caller: seconds since the call's context was created
    clock,      \* "seconds": elapsed is tracked; "abstract": durations are
                \* arbitrary, so a pending call's deadline may pass at any step
    enabled,    \* app.config.limiter.enabled
    mu,         \* sync.Mutex of rateLimiter: "free", or the goroutine holding it
    clients,    \* map[string]*client of rateLimiter: identity -> entry, or NoClient
    req,        \* per request goroutine: where it is in the rateLimiter handler
    sweeper,    \* the background goroutine: where it is, and how long it slept
    fineTicks,  \* half-second steps taken by the clock so far
    burstCount, \* per identity: checks its entry admitted at the present instant
    ledger,     \* per identity: what a bucket that is never removed would
                \* hold, and whether the sweep has removed the identity's entry
                \* within the last minute
    auth,       \* the request in the authenticate / require* chain of handlers
    totalRequestsReceived,      \* expvar.NewInt("total_requests_received")
    totalResponsesSent,         \* expvar.NewInt("total_responses_sent")
    totalResponsesSentByStatus, \* expvar.NewMap("total_responses_sent_by_status")
    main,       \* the goroutine running serve(): where it is, and what it returned
    shut,       \* the goroutine serve() starts to wait for a signal
    quit,       \* signals buffered in the channel quit (capacity 1)
    server,     \* the http.Server: its listener, and whether Shutdown was called
    conns,      \* per connection: the request on it
    grace,      \* seconds since the context of Shutdown was created
    signals,    \* SIGINT/SIGTERM sent to the process so far
    process     \* "running", or "killed" by a signal nobody had registered for

storeVars == <<movies, nextID, call, elapsed, clock>>

limiterVars == <<enabled, mu, clients, req, sweeper, fineTicks, burstCount, ledger>>

authVars == <<auth>>

metricsVars == <<totalRequestsReceived, totalResponsesSent, totalResponsesSentByStatus>>

serveVars == <<main, shut, quit, server, conns, grace, signals, process>>

vars == <<movies, nextID, call, elapsed, clock,
          enabled, mu, clients, req, sweeper, fineTicks, burstCount, ledger, auth,
          totalRequestsReceived, totalResponsesSent, totalResponsesSentByStatus,
          main, shut, quit, server, conns, grace, signals, process>>

----------------------------------------------------------------------------
(* Bounds of the model *)

MaxID == 1
MaxVersion == 3
\* half-second steps of the limiter's clock in one run (steps of a minute are
\* not limited)
MaxFineTicks == 1
\* space-separated parts of an Authorization header
MaxParts == 3
\* requests entering the chain of handlers in one run
MaxReceived == 5
\* signals sent to the process in one run
MaxSignals == 2
\* seconds by which the clock of Shutdown moves in one step
SecondsPerStep == 10

Callers == {"c1", "c2"}

\* request goroutines alive at a time (a finished one is replaced by the next
\* request), and the client addresses they come from
Requests == {"r1", "r2"}

Identities == {"10.0.0.1", "10.0.0.2"}

\* the address all requests come from where one identity is followed
OneIdentity == {"10.0.0.1"}

\* the request goroutine where two identities are followed
OneRequest == {"r1"}

\* inbound connections of the server in one run, each carrying one request
Conns == {"k1", "k2"}

(* Program constants *)

\* context.WithTimeout(context.Background(), 3*time.Second), in seconds
StoreTimeout == 3
\* version of a freshly inserted row (column default of the movies table)
InitialVersion == 1
\* SELECT id, created_at, title, year, runtime, genres, version
SelectColumns == 7
\* destinations handed to Scan by Get: &[]byte{} and the seven fields
GetScanDests == 8
\* destinations handed to rows.Scan by GetAll
GetAllScanDests == 7
\* RETURNING id, created_at, version / Scan(&movie.ID, &movie.CreatedAt, &movie.Version)
InsertColumns == 3
InsertScanDests == 3
\* RETURNING version / Scan(&movie.Version)
UpdateColumns == 1
UpdateScanDests == 1
\* rate.NewLimiter(2, 4): 2 tokens per second, burst of 4
Rate == 2
Burst == 4
\* http.StatusTooManyRequests, and the status the downstream handler writes
StatusTooManyRequests == 429
StatusOK == 200

\* context.WithTimeout(context.Background(), 20*time.Second) of serve()
Grace == 20

\* quit := make(chan os.Signal, 1)
QuitCap == 1
\* the statuses written by the error responses of the chain of handlers
StatusUnauthorized == 401
StatusForbidden == 403
StatusInternalServerError == 500
\* the length of a token's plaintext
TokenBytes == 26

(* The limiter's clock ticks once per token period (half a second at two     *)
(* tokens per second); tokens are counted in the units one tick refills.     *)
TicksPerSecond == Rate
UnitsPerToken == TicksPerSecond \div Rate
RefillPerTick == (Rate * UnitsPerToken) \div TicksPerSecond
BurstUnits == Burst * UnitsPerToken
HalfSecond == TicksPerSecond \div 2
Minute == 60 * TicksPerSecond
\* time.Sleep(time.Minute)
SweepInterval == Minute
\* time.Since(client.lastSeen) > 3*time.Minute
StaleAfter == 3 * Minute

----------------------------------------------------------------------------
(* Values *)

NoRow == [present |-> FALSE, title |-> "", genres |-> {}, version |-> 0]

\* the payloads callers insert, and the payloads they update a movie to
InsertPayloads == { [title |-> "Jaws", genres |-> {"horror"}] }

UpdatePayloads == { [title |-> "moana", genres |-> {"animation"}] }

NoPayload == [title |-> "", genres |-> {}]

IDs == 1 .. MaxID

\* errors.New values of models.go and the errors of database/sql and context
Nil == "nil"
ErrRecordNotFound == "record not found"
ErrEditConflict == "edit conflict"
ErrNoRows == "sql: no rows in result set"
ErrDeadline == "context deadline exceeded"
ErrServerClosed == "http: Server closed"
ErrListen == "listen tcp: bind: address already in use"
ErrScanArity == "sql: wrong number of destination arguments in Scan"

\* a context without deadline (context.Background())
NoDeadline == -1

\* the caller's *Movie: movie.ID, movie.Version and the payload fields
NoMovie == [ID |-> 0, Version |-> 0, payload |-> NoPayload]

NoAnswer == [kind |-> "none", cols |-> 0, id |-> 0, version |-> 0,
             payload |-> NoPayload, ids |-> {}, affected |-> 0]

IdleCall ==
    [op |-> "none", pc |-> "idle", id |-> 0, arg |-> NoMovie, movie |-> NoMovie,
     filter |-> NoPayload, deadline |-> NoDeadline, ans |-> NoAnswer,
     err |-> Nil, found |-> {},
     \* history kept for the properties: whether the statement ran and matched
     \* a row, the version of the row a Delete removed, whether the context
     \* expired, whether movie is the one the caller's previous successful
     \* Update wrote to, and whether another Update of the same id was pending
     \* when this one ran
     exec |-> "no", seen |-> 0, timedOut |-> FALSE, chained |-> FALSE,
     raced |-> FALSE]

\* a caller that takes no part in the run
OffCall == [IdleCall EXCEPT !.pc = "off"]

\* no entry in the clients map
NoClient == [present |-> FALSE, tokens |-> 0, lastAge |-> 0, lastSeenAge |-> 0,
             touched |-> FALSE, bornNow |-> FALSE]

\* a request goroutine that has not started
NoRequest == [pc |-> "idle", ip |-> "", allowed |-> "none", status |-> 0,
              served |-> 0, panicked |-> FALSE, connClose |-> FALSE]

\* the status codes the counters of metrics are keyed by in the model
StatusCodes == {StatusOK, StatusTooManyRequests, StatusInternalServerError}

\* a goroutine that was not started
NoGoroutine == [pc |-> "off", err |-> "none"]

\* the http.Server before ListenAndServe
NoServer == [listener |-> "none", inShutdown |-> FALSE]

\* a connection nobody opened; early: its request was in flight when the
\* signal was received
NoConn == [st |-> "none", early |-> FALSE]

\* the books of an identity nobody has checked: a full bucket, no entry removed
NoLedger == [credit |-> BurstUnits, evicted |-> FALSE]

\* no user: the request context before contextSetUser
NoUser == [id |-> -1, activated |-> FALSE]

\* data.AnonymousUser
AnonymousUser == [id |-> 0, activated |-> FALSE]

\* a request that has not entered the chain of handlers
NoAuth == [pc |-> "idle", header |-> <<>>,
           route |-> [guard |-> "none", code |-> ""], owner |-> 0,
           user |-> NoUser, rest |-> <<>>, ran |-> <<>>, resp |-> "",
           status |-> 0, served |-> 0, tokenLookups |-> 0, permLookups |-> 0,
           panicked |-> FALSE, dbFailed |-> FALSE]

\* the answer of a statement whose context expired before it was read
Cancelled == [NoAnswer EXCEPT !.kind = "error"]

InFlight(c) == c.pc \in {"sent", "answered"}

CanCall(c) == c.pc \in {"idle", "returned"}

----------------------------------------------------------------------------
(* The SQL statements, as the store executes them: each returns the new    *)
(* table and the answer sent back to the driver.                           *)

\* LOWER() of the titles in use
Lower(t) == IF t = "Jaws" THEN "jaws" ELSE t

\* INSERT INTO movies (...) VALUES (...) RETURNING id, created_at, version
InsertStmt(tbl, seq, payload) ==
    [tbl |-> [tbl EXCEPT ![seq] = [present |-> TRUE, title |-> payload.title,
                                   genres |-> payload.genres,
                                   version |-> InitialVersion]],
     ans |-> [NoAnswer EXCEPT !.kind = "row", !.cols = InsertColumns,
                              !.id = seq, !.version = InitialVersion]]

\* SELECT ... FROM movies WHERE id = $1
SelectStmt(tbl, id) ==
    IF id \in DOMAIN tbl /\ tbl[id].present
    THEN [NoAnswer EXCEPT !.kind = "row", !.cols = SelectColumns, !.id = id,
                          !.version = tbl[id].version,
                          !.payload = [title |-> tbl[id].title,
                                       genres |-> tbl[id].genres]]
    ELSE [NoAnswer EXCEPT !.kind = "norows"]

\* SELECT ... WHERE (LOWER(title) = LOWER($1) OR $1 = '')
\*              AND (genres @> $2 OR $2 = '{}') ORDER BY id
SelectAllStmt(tbl, title, genres) ==
    [NoAnswer EXCEPT !.kind = "rows", !.cols = SelectColumns,
        !.ids = { i \in DOMAIN tbl :
                    /\ tbl[i].present
                    /\ (Lower(tbl[i].title) = Lower(title) \/ title = "")
                    /\ (genres \subseteq tbl[i].genres \/ genres = {}) }]

UpdateStmtNoVersionCheck(tbl, id, version, payload) ==
    IF id \in DOMAIN tbl /\ tbl[id].present
    THEN [tbl |-> [tbl EXCEPT ![id] = [present |-> TRUE, title |-> payload.title,
                                       genres |-> payload.genres,
                                       version |-> tbl[id].version + 1]],
          ans |-> [NoAnswer EXCEPT !.kind = "row", !.cols = UpdateColumns,
                                   !.version = tbl[id].version + 1]]
    ELSE [tbl |-> tbl, ans |-> [NoAnswer EXCEPT !.kind = "norows"]]

UpdateStmtSetsCallerVersion(tbl, id, version, payload) ==
    IF id \in DOMAIN tbl /\ tbl[id].present /\ tbl[id].version = version
    THEN [tbl |-> [tbl EXCEPT ![id] = [present |-> TRUE, title |-> payload.title,
                                       genres |-> payload.genres,
                                       version |-> version]],
          ans |-> [NoAnswer EXCEPT !.kind = "row", !.cols = UpdateColumns,
                                   !.version = version]]
    ELSE [tbl |-> tbl, ans |-> [NoAnswer EXCEPT !.kind = "norows"]]

\* UPDATE movies SET title = $1, ..., version = version + 1
\* WHERE id = $5 AND version = $6 RETURNING version
UpdateStmt(tbl, id, version, payload) ==
    IF id \in DOMAIN tbl /\ tbl[id].present /\ tbl[id].version = version
    THEN [tbl |-> [tbl EXCEPT ![id] = [present |-> TRUE, title |-> payload.title,
                                       genres |-> payload.genres,
                                       version |-> tbl[id].version + 1]],
          ans |-> [NoAnswer EXCEPT !.kind = "row", !.cols = UpdateColumns,
                                   !.version = tbl[id].version + 1]]
    ELSE [tbl |-> tbl, ans |-> [NoAnswer EXCEPT !.kind = "norows"]]

DeleteStmtCurrentVersionOnly(tbl, id) ==
    IF id \in DOMAIN tbl /\ tbl[id].present /\ tbl[id].version = InitialVersion
    THEN [tbl |-> [tbl EXCEPT ![id] = NoRow],
          ans |-> [NoAnswer EXCEPT !.kind = "result", !.affected = 1]]
    ELSE [tbl |-> tbl, ans |-> [NoAnswer EXCEPT !.kind = "result", !.affected = 0]]

\* DELETE FROM movies WHERE id = $1
DeleteStmt(tbl, id) ==
    IF id \in DOMAIN tbl /\ tbl[id].present
    THEN [tbl |-> [tbl EXCEPT ![id] = NoRow],
          ans |-> [NoAnswer EXCEPT !.kind = "result", !.affected = 1]]
    ELSE [tbl |-> tbl, ans |-> [NoAnswer EXCEPT !.kind = "result", !.affected = 0]]

----------------------------------------------------------------------------
(* database/sql on the caller's side *)

\* Row.Scan(dest...): the context's error, else ErrNoRows when the result is
\* empty, else the arity check of Rows.Scan, else nil
RowScan(ans, dests) ==
    IF ans.kind = "error" THEN ErrDeadline
    ELSE IF ans.kind = "norows" THEN ErrNoRows
    ELSE IF dests # ans.cols THEN ErrScanArity
    ELSE Nil

\* the rows.Next()/rows.Scan loop of GetAll: the first row's Scan error ends it
RowsScan(ans, dests) ==
    IF ans.kind = "error" THEN ErrDeadline
    ELSE IF ans.ids # {} /\ dests # ans.cols THEN ErrScanArity
    ELSE Nil


----------------------------------------------------------------------------
(* MovieModel: what each method does with the store's answer.  c is the    *)
(* call, ans the answer (Cancelled when the context expired first).        *)

WithoutTimeout(op) == NoDeadline

\* ctx, cancel := context.WithTimeout(context.Background(), 3*time.Second)
WithTimeout(op) == StoreTimeout

\* Insert: return m.DB.QueryRowContext(...).Scan(&movie.ID, &movie.CreatedAt, &movie.Version)
InsertReturn(c, ans) ==
    LET err == RowScan(ans, InsertScanDests) IN
    [c EXCEPT !.pc = "returned", !.err = err,
              !.movie = IF err = Nil
                        THEN [c.movie EXCEPT !.ID = ans.id, !.Version = ans.version]
                        ELSE c.movie]

\* Get: Scan into movie; sql.ErrNoRows becomes ErrRecordNotFound, any other
\* error is returned as it is, with a nil *Movie
GetReturn(c, ans) ==
    LET err == RowScan(ans, GetScanDests) IN
    IF err # Nil
    THEN [c EXCEPT !.pc = "returned", !.movie = NoMovie,
                   !.err = IF err = ErrNoRows THEN ErrRecordNotFound ELSE err]
    ELSE [c EXCEPT !.pc = "returned", !.err = Nil,
                   !.movie = [ID |-> ans.id, Version |-> ans.version,
                              payload |-> ans.payload]]

\* GetAll: QueryContext, then the rows loop; any error is returned as it is
GetAllReturn(c, ans) ==
    LET err == RowsScan(ans, GetAllScanDests) IN
    [c EXCEPT !.pc = "returned", !.err = err,
              !.found = IF err = Nil THEN ans.ids ELSE {}]

UpdateReturnIgnoresNoRows(c, ans) ==
    LET err == RowScan(ans, UpdateScanDests) IN
    IF err # Nil /\ err # ErrNoRows
    THEN [c EXCEPT !.pc = "returned", !.err = err]
    ELSE [c EXCEPT !.pc = "returned", !.err = Nil,
                   !.movie.Version = IF err = Nil THEN ans.version
                                     ELSE c.movie.Version]

\* Update: Scan(&movie.Version); sql.ErrNoRows becomes ErrEditConflict, any
\* other error is returned as it is
UpdateReturn(c, ans) ==
    LET err == RowScan(ans, UpdateScanDests) IN
    IF err # Nil
    THEN [c EXCEPT !.pc = "returned",
                   !.err = IF err = ErrNoRows THEN ErrEditConflict ELSE err]
    ELSE [c EXCEPT !.pc = "returned", !.err = Nil, !.movie.Version = ans.version]

\* Delete: ExecContext's error, else ErrRecordNotFound when no row was affected
DeleteReturn(c, ans) ==
    IF ans.kind = "error"
    THEN [c EXCEPT !.pc = "returned", !.err = ErrDeadline]
    ELSE IF ans.affected = 0
    THEN [c EXCEPT !.pc = "returned", !.err = ErrRecordNotFound]
    ELSE [c EXCEPT !.pc = "returned", !.err = Nil]

Finish(c, ans) ==
    CASE c.op = "Insert" -> InsertReturn(c, ans)
      [] c.op = "Get"    -> GetReturn(c, ans)
      [] c.op = "GetAll" -> GetAllReturn(c, ans)
      [] c.op = "Update" -> UpdateReturn(c, ans)
      [] c.op = "Delete" -> DeleteReturn(c, ans)

----------------------------------------------------------------------------
(* Actions of SpecStore *)

\* the limiter takes no part in the runs of the store
\* the chain of handlers takes no part in the runs of the store and the limiter
AuthParked == auth = NoAuth

\* the counters of metrics stay at zero where the metrics handler is not run
MetricsParked ==
    /\ totalRequestsReceived = 0
    /\ totalResponsesSent = 0
    /\ totalResponsesSentByStatus = [c \in StatusCodes |-> 0]

\* serve() is not called
ServeParked ==
    /\ main = NoGoroutine
    /\ shut = NoGoroutine
    /\ quit = 0
    /\ server = NoServer
    /\ conns = [k \in Conns |-> NoConn]
    /\ grace = 0
    /\ signals = 0
    /\ process = "running"

LimiterParked ==
    /\ enabled = FALSE
    /\ mu = "free"
    /\ clients = [i \in Identities |-> NoClient]
    /\ req = [r \in Requests |-> NoRequest]
    /\ sweeper = [pc |-> "off", slept |-> 0]
    /\ fineTicks = 0
    /\ burstCount = [i \in Identities |-> 0]
    /\ ledger = [i \in Identities |-> NoLedger]

\* the store takes no part in the runs of the limiter
StoreParked ==
    /\ movies = [i \in IDs |-> NoRow]
    /\ nextID = 1
    /\ call = [p \in Callers |-> OffCall]
    /\ elapsed = [p \in Callers |-> 0]
    /\ clock = "abstract"

StoreInit ==
    /\ movies = [i \in IDs |-> NoRow]
    /\ nextID = 1
    /\ call = [p \in Callers |-> IdleCall]
    /\ elapsed = [p \in Callers |-> 0]
    /\ clock = "abstract"
    /\ LimiterParked
    /\ AuthParked
    /\ MetricsParked
    /\ ServeParked

\* one caller, with the seconds of every pending call counted
ClockInit ==
    /\ movies = [i \in IDs |-> NoRow]
    /\ nextID = 1
    /\ call = [p \in Callers |-> IF p = "c1" THEN IdleCall ELSE OffCall]
    /\ elapsed = [p \in Callers |-> 0]
    /\ clock = "seconds"
    /\ LimiterParked
    /\ AuthParked
    /\ MetricsParked
    /\ ServeParked

Send(p, c) ==
    /\ call' = [call EXCEPT ![p] = c]
    /\ elapsed' = [elapsed EXCEPT ![p] = 0]
    /\ UNCHANGED <<movies, nextID, clock>>
    /\ UNCHANGED <<limiterVars, authVars, metricsVars, serveVars>>

\* MovieModel.Insert(movie) is called
Insert(p, payload) ==
    /\ CanCall(call[p])
    /\ Send(p, [IdleCall EXCEPT !.op = "Insert", !.pc = "sent",
                   !.movie = [NoMovie EXCEPT !.payload = payload],
                   !.arg = [NoMovie EXCEPT !.payload = payload],
                   !.deadline = WithTimeout("Insert")])

\* MovieModel.Get(id) is called: id < 1 returns at once
Get(p, id) ==
    /\ CanCall(call[p])
    /\ IF id < 1
       THEN Send(p, [IdleCall EXCEPT !.op = "Get", !.pc = "returned", !.id = id,
                        !.err = ErrRecordNotFound])
       ELSE Send(p, [IdleCall EXCEPT !.op = "Get", !.pc = "sent", !.id = id,
                        !.deadline = WithTimeout("Get")])

\* MovieModel.GetAll(title, genres, f) is called
GetAll(p, filter) ==
    /\ CanCall(call[p])
    /\ Send(p, [IdleCall EXCEPT !.op = "GetAll", !.pc = "sent", !.filter = filter,
                   !.deadline = WithTimeout("GetAll")])

\* MovieModel.Update(movie) is called: args are built from the caller's movie.
\* chained: movie is the one the caller's previous, successful Update wrote to.
Update(p, m) ==
    /\ CanCall(call[p])
    /\ m.Version < MaxVersion
    /\ Send(p, [IdleCall EXCEPT !.op = "Update", !.pc = "sent", !.movie = m,
                   !.arg = m, !.deadline = WithTimeout("Update"),
                   !.chained = /\ call[p].op = "Update"
                               /\ call[p].err = Nil
                               /\ call[p].movie.ID = m.ID
                               /\ call[p].movie.Version = m.Version])

\* MovieModel.Delete(id) is called: id < 1 returns at once
Delete(p, id) ==
    /\ CanCall(call[p])
    /\ IF id < 1
       THEN Send(p, [IdleCall EXCEPT !.op = "Delete", !.pc = "returned", !.id = id,
                        !.err = ErrRecordNotFound])
       ELSE Send(p, [IdleCall EXCEPT !.op = "Delete", !.pc = "sent", !.id = id,
                        !.deadline = WithTimeout("Delete")])

\* the store executes the statement of p's call, atomically
StoreExec(p) ==
    LET c == call[p] IN
    /\ c.pc = "sent"
    /\ CASE c.op = "Insert" ->
              LET r == InsertStmt(movies, nextID, c.arg.payload) IN
              /\ nextID <= MaxID
              /\ movies' = r.tbl
              /\ nextID' = nextID + 1
              /\ call' = [call EXCEPT ![p] = [c EXCEPT !.pc = "answered",
                              !.ans = r.ans, !.exec = "hit"]]
         [] c.op = "Get" ->
              LET a == SelectStmt(movies, c.id) IN
              /\ call' = [call EXCEPT ![p] = [c EXCEPT !.pc = "answered", !.ans = a,
                              !.exec = IF a.kind = "row" THEN "hit" ELSE "miss"]]
              /\ UNCHANGED <<movies, nextID>>
         [] c.op = "GetAll" ->
              LET a == SelectAllStmt(movies, c.filter.title, c.filter.genres) IN
              /\ call' = [call EXCEPT ![p] = [c EXCEPT !.pc = "answered", !.ans = a,
                              !.exec = "hit"]]
              /\ UNCHANGED <<movies, nextID>>
         [] c.op = "Update" ->
              LET r == UpdateStmt(movies, c.arg.ID, c.arg.Version, c.arg.payload) IN
              /\ movies' = r.tbl
              /\ call' = [call EXCEPT ![p] = [c EXCEPT !.pc = "answered",
                              !.ans = r.ans,
                              !.raced = \E q \in Callers \ {p} :
                                           /\ InFlight(call[q])
                                           /\ call[q].op = "Update"
                                           /\ call[q].arg.ID = c.arg.ID,
                              !.exec = IF r.ans.kind = "row" THEN "hit" ELSE "miss"]]
              /\ UNCHANGED nextID
         [] c.op = "Delete" ->
              LET r == DeleteStmt(movies, c.id) IN
              /\ movies' = r.tbl
              /\ call' = [call EXCEPT ![p] = [c EXCEPT !.pc = "answered",
                              !.ans = r.ans,
                              !.seen = IF c.id \in IDs THEN movies[c.id].version ELSE 0,
                              !.exec = IF r.ans.affected = 1 THEN "hit" ELSE "miss"]]
              /\ UNCHANGED nextID
    /\ UNCHANGED <<elapsed, clock>>
    /\ UNCHANGED <<limiterVars, authVars, metricsVars, serveVars>>

\* the answer reaches the caller before the context's deadline
Return(p) ==
    /\ call[p].pc = "answered"
    /\ call' = [call EXCEPT ![p] = Finish(call[p], call[p].ans)]
    /\ elapsed' = [elapsed EXCEPT ![p] = 0]
    /\ UNCHANGED <<movies, nextID, clock>>
    /\ UNCHANGED <<limiterVars, authVars, metricsVars, serveVars>>

\* the context's deadline passes first: the pending call ends with ctx.Err()
DeadlineExceeded(p) ==
    /\ InFlight(call[p])
    /\ call[p].deadline # NoDeadline
    /\ clock = "seconds" => elapsed[p] >= call[p].deadline
    /\ call' = [call EXCEPT ![p] = [Finish(call[p], Cancelled) EXCEPT !.timedOut = TRUE]]
    /\ elapsed' = [elapsed EXCEPT ![p] = 0]
    /\ UNCHANGED <<movies, nextID, clock>>
    /\ UNCHANGED <<limiterVars, authVars, metricsVars, serveVars>>

\* one second passes; a context whose deadline is reached fires before the next
Tick ==
    /\ clock = "seconds"
    /\ \E p \in Callers : InFlight(call[p])
    /\ \A p \in Callers :
          InFlight(call[p]) /\ call[p].deadline # NoDeadline
              => elapsed[p] < call[p].deadline
    /\ \A p \in Callers : InFlight(call[p]) => elapsed[p] <= StoreTimeout
    /\ elapsed' = [p \in Callers |->
                     IF InFlight(call[p]) THEN elapsed[p] + 1 ELSE elapsed[p]]
    /\ UNCHANGED <<movies, nextID, call, clock>>
    /\ UNCHANGED <<limiterVars, authVars, metricsVars, serveVars>>

Movies == { [ID |-> i, Version |-> v, payload |-> pl] :
              i \in IDs, v \in 1 .. MaxVersion, pl \in UpdatePayloads }

Filters == { NoPayload, [title |-> "jaws", genres |-> {"horror"}] }

\* concurrent writers on the movies table
StoreNext ==
    \/ \E p \in Callers, pl \in InsertPayloads : Insert(p, pl)
    \/ \E p \in Callers, m \in Movies : Update(p, m)
    \/ \E p \in Callers, id \in 0 .. MaxID : Delete(p, id)
    \/ \E p \in Callers : StoreExec(p)
    \/ \E p \in Callers : Return(p)
    \/ \E p \in Callers : DeadlineExceeded(p)

SpecStore == StoreInit /\ [][StoreNext]_vars

\* every method, against the clock
ClockNext ==
    \/ \E p \in Callers, pl \in InsertPayloads : Insert(p, pl)
    \/ \E p \in Callers, id \in 0 .. MaxID : Get(p, id)
    \/ \E p \in Callers, f \in Filters : GetAll(p, f)
    \/ \E p \in Callers, m \in Movies : Update(p, m)
    \/ \E p \in Callers, id \in 0 .. MaxID : Delete(p, id)
    \/ \E p \in Callers : StoreExec(p)
    \/ \E p \in Callers : Return(p)
    \/ \E p \in Callers : DeadlineExceeded(p)
    \/ Tick

SpecClock == ClockInit /\ [][ClockNext]_vars

----------------------------------------------------------------------------
(* The token bucket of golang.org/x/time/rate, with ages in place of times: *)
(* lastAge is the time since the limiter's last update, in ticks.           *)

Min(a, b) == IF a < b THEN a ELSE b

Max(a, b) == IF a > b THEN a ELSE b

\* ticks after which an untouched bucket is full whatever it held
FullAfter == (BurstUnits + RefillPerTick - 1) \div RefillPerTick

\* an age above the staleness threshold: ages are not counted beyond it
StaleCap == StaleAfter + 1

\* &client{limiter: rate.NewLimiter(rps, burst)}: the limiter starts with no
\* tokens and the zero time as its last update, and lastSeen is the zero time
NewClient ==
    [present |-> TRUE, tokens |-> 0, lastAge |-> FullAfter,
     lastSeenAge |-> StaleCap, touched |-> FALSE, bornNow |-> TRUE]

\* Limiter.advance: the tokens at hand now, refilled for the time since the
\* last update and capped at the burst
Advance(e) == Min(e.tokens + e.lastAge * RefillPerTick, BurstUnits)

\* Limiter.Allow: one token is taken if there is one; the limiter's state is
\* updated only then
LimiterAllow(e) ==
    LET tokens == Advance(e) - UnitsPerToken IN
    IF tokens >= 0
    THEN [ok |-> TRUE, e |-> [e EXCEPT !.tokens = tokens, !.lastAge = 0]]
    ELSE [ok |-> FALSE, e |-> e]

StaleNever(e) == FALSE

StaleAlways(e) == TRUE

StaleAfterOneMinute(e) == e.lastSeenAge > Minute

\* time.Since(client.lastSeen) > 3*time.Minute
Stale(e) == e.lastSeenAge > StaleAfter

----------------------------------------------------------------------------
(* rateLimiter: the handler's control flow *)

MuIgnored(m) == TRUE

\* mu.Lock() returns once no goroutine holds mu
MuFree(m) == m = "free"

MustCreateAlways(found) == TRUE

\* if _, found := clients[ip]; !found { clients[ip] = &client{...} }
MustCreate(found) == ~found

AfterArriveAlwaysLimited(on) == "lock"

\* if app.config.limiter.enabled { mu.Lock() ... }; next.ServeHTTP(w, r)
AfterArrive(on) == IF on THEN "lock" ELSE "next"

AfterAllowDeferredUnlock(ok) == IF ok THEN "next" ELSE "unlockDeny"

\* if !clients[ip].limiter.Allow() { mu.Unlock(); ...; return }; mu.Unlock()
AfterAllow(ok) == IF ok THEN "unlockAdmit" ELSE "unlockDeny"

AfterRateLimitExceededNoReturn == "next"

\* app.rateLimitExceededResponse(w, r); return
AfterRateLimitExceeded == "done"

\* the pcs at which the handler holds mu
Critical == {"lookup", "create", "touch", "allow", "unlockDeny", "unlockAdmit"}

----------------------------------------------------------------------------
(* Actions of SpecLimiter *)

LimiterInit ==
    /\ enabled \in BOOLEAN
    /\ mu = "free"
    /\ clients = [i \in Identities |-> NoClient]
    /\ req = [r \in Requests |-> NoRequest]
    /\ sweeper = [pc |-> "sleep", slept |-> 0]
    /\ fineTicks = 0
    /\ burstCount = [i \in Identities |-> 0]
    /\ ledger = [i \in Identities |-> NoLedger]
    /\ StoreParked
    /\ AuthParked
    /\ MetricsParked
    /\ ServeParked

\* a request from ip reaches the handler: if app.config.limiter.enabled { ... }
Arrive(r, ip) ==
    /\ req[r].pc \in {"idle", "done"}
    /\ req' = [req EXCEPT ![r] = [NoRequest EXCEPT !.ip = ip,
                                     !.pc = AfterArrive(enabled)]]
    /\ UNCHANGED <<enabled, mu, clients, sweeper, fineTicks, burstCount, ledger>>
    /\ UNCHANGED <<storeVars, authVars, metricsVars, serveVars>>

\* mu.Lock()
Lock(r) ==
    /\ req[r].pc = "lock"
    /\ MuFree(mu)
    /\ mu' = r
    /\ req' = [req EXCEPT ![r].pc = "lookup"]
    /\ UNCHANGED <<enabled, clients, sweeper, fineTicks, burstCount, ledger>>
    /\ UNCHANGED <<storeVars, authVars, metricsVars, serveVars>>

\* _, found := clients[ip]
Lookup(r) ==
    /\ req[r].pc = "lookup"
    /\ req' = [req EXCEPT ![r].pc =
                  IF MustCreate(clients[req[r].ip].present) THEN "create" ELSE "touch"]
    /\ UNCHANGED <<enabled, mu, clients, sweeper, fineTicks, burstCount, ledger>>
    /\ UNCHANGED <<storeVars, authVars, metricsVars, serveVars>>

\* clients[ip] = &client{limiter: rate.NewLimiter(...)}
Create(r) ==
    /\ req[r].pc = "create"
    /\ clients' = [clients EXCEPT ![req[r].ip] = NewClient]
    /\ req' = [req EXCEPT ![r].pc = "touch"]
    /\ burstCount' = [burstCount EXCEPT ![req[r].ip] = 0]
    /\ UNCHANGED <<enabled, mu, sweeper, fineTicks, ledger>>
    /\ UNCHANGED <<storeVars, authVars, metricsVars, serveVars>>

\* clients[ip].lastSeen = time.Now(): a nil entry would panic
Touch(r) ==
    /\ req[r].pc = "touch"
    /\ IF clients[req[r].ip].present
       THEN /\ clients' = [clients EXCEPT ![req[r].ip].lastSeenAge = 0,
                                          ![req[r].ip].touched = TRUE]
            /\ req' = [req EXCEPT ![r].pc = "allow"]
       ELSE /\ req' = [req EXCEPT ![r].pc = "panic"]
            /\ UNCHANGED clients
    /\ UNCHANGED <<enabled, mu, sweeper, fineTicks, burstCount, ledger>>
    /\ UNCHANGED <<storeVars, authVars, metricsVars, serveVars>>

\* clients[ip].limiter.Allow()
Allow(r) ==
    LET ip == req[r].ip
        res == LimiterAllow(clients[ip])
    IN  /\ req[r].pc = "allow"
        /\ IF clients[ip].present
           THEN /\ clients' = [clients EXCEPT ![ip] = res.e]
                /\ req' = [req EXCEPT ![r].pc = AfterAllow(res.ok),
                                      ![r].allowed = IF res.ok THEN "yes" ELSE "no"]
                /\ burstCount' = [burstCount EXCEPT ![ip] =
                                     IF res.ok THEN @ + 1 ELSE @]
                /\ ledger' = [ledger EXCEPT ![ip].credit =
                                 IF res.ok THEN Max(@ - UnitsPerToken, -BurstUnits)
                                 ELSE @]
           ELSE /\ req' = [req EXCEPT ![r].pc = "panic"]
                /\ UNCHANGED <<clients, burstCount, ledger>>
        /\ UNCHANGED <<enabled, mu, sweeper, fineTicks>>
        /\ UNCHANGED <<storeVars, authVars, metricsVars, serveVars>>

\* mu.Unlock() on the deny path
UnlockDeny(r) ==
    /\ req[r].pc = "unlockDeny"
    /\ mu' = "free"
    /\ req' = [req EXCEPT ![r].pc = "respond429"]
    /\ UNCHANGED <<enabled, clients, sweeper, fineTicks, burstCount, ledger>>
    /\ UNCHANGED <<storeVars, authVars, metricsVars, serveVars>>

\* app.rateLimitExceededResponse(w, r); return
RateLimitExceeded(r) ==
    /\ req[r].pc = "respond429"
    /\ req' = [req EXCEPT ![r].status = StatusTooManyRequests,
                          ![r].pc = AfterRateLimitExceeded]
    /\ UNCHANGED <<enabled, mu, clients, sweeper, fineTicks, burstCount, ledger>>
    /\ UNCHANGED <<storeVars, authVars, metricsVars, serveVars>>

\* mu.Unlock() on the admit path
UnlockAdmit(r) ==
    /\ req[r].pc = "unlockAdmit"
    /\ mu' = "free"
    /\ req' = [req EXCEPT ![r].pc = "next"]
    /\ UNCHANGED <<enabled, clients, sweeper, fineTicks, burstCount, ledger>>
    /\ UNCHANGED <<storeVars, authVars, metricsVars, serveVars>>

\* next.ServeHTTP(w, r) is entered
ServeNext(r) ==
    /\ req[r].pc = "next"
    /\ req' = [req EXCEPT ![r].pc = "handler", ![r].served = @ + 1]
    /\ UNCHANGED <<enabled, mu, clients, sweeper, fineTicks, burstCount, ledger>>
    /\ UNCHANGED <<storeVars, authVars, metricsVars, serveVars>>

\* the downstream handler writes its response and returns
HandlerDone(r) ==
    /\ req[r].pc = "handler"
    /\ req' = [req EXCEPT ![r].pc = "done",
                          ![r].status = IF @ = 0 THEN StatusOK ELSE @]
    /\ UNCHANGED <<enabled, mu, clients, sweeper, fineTicks, burstCount, ledger>>
    /\ UNCHANGED <<storeVars, authVars, metricsVars, serveVars>>

\* time.Sleep(time.Minute) returns
Wake ==
    /\ sweeper.pc = "sleep"
    /\ sweeper.slept >= SweepInterval
    /\ sweeper' = [sweeper EXCEPT !.pc = "lock"]
    /\ UNCHANGED <<enabled, mu, clients, req, fineTicks, burstCount, ledger>>
    /\ UNCHANGED <<storeVars, authVars, metricsVars, serveVars>>

\* the sweep goroutine's mu.Lock()
SweepLock ==
    /\ sweeper.pc = "lock"
    /\ MuFree(mu)
    /\ mu' = "sweeper"
    /\ sweeper' = [sweeper EXCEPT !.pc = "sweep"]
    /\ UNCHANGED <<enabled, clients, req, fineTicks, burstCount, ledger>>
    /\ UNCHANGED <<storeVars, authVars, metricsVars, serveVars>>

\* for ip, client := range clients { if stale { delete(clients, ip) } }
Sweep ==
    /\ sweeper.pc = "sweep"
    /\ clients' = [i \in Identities |->
                     IF clients[i].present /\ Stale(clients[i])
                     THEN NoClient ELSE clients[i]]
    /\ sweeper' = [sweeper EXCEPT !.pc = "unlock"]
    /\ ledger' = [i \in Identities |->
                    IF clients[i].present /\ Stale(clients[i])
                    THEN [ledger[i] EXCEPT !.evicted = TRUE] ELSE ledger[i]]
    /\ UNCHANGED <<enabled, mu, req, fineTicks, burstCount>>
    /\ UNCHANGED <<storeVars, authVars, metricsVars, serveVars>>

\* the sweep goroutine's mu.Unlock(), and back to time.Sleep
SweepUnlock ==
    /\ sweeper.pc = "unlock"
    /\ mu' = "free"
    /\ sweeper' = [pc |-> "sleep", slept |-> 0]
    /\ UNCHANGED <<enabled, clients, req, fineTicks, burstCount, ledger>>
    /\ UNCHANGED <<storeVars, authVars, metricsVars, serveVars>>

\* d ticks pass: every age grows by d, up to the value from which it no longer
\* matters
Pass(d) ==
    /\ clients' = [i \in Identities |->
                     IF clients[i].present
                     THEN [clients[i] EXCEPT
                              !.lastAge = Min(@ + d, FullAfter),
                              !.lastSeenAge = Min(@ + d, StaleCap),
                              !.bornNow = FALSE]
                     ELSE clients[i]]
    /\ sweeper' = IF sweeper.pc = "sleep"
                  THEN [sweeper EXCEPT !.slept = Min(@ + d, SweepInterval)]
                  ELSE sweeper
    /\ burstCount' = [i \in Identities |-> 0]
    /\ ledger' = [i \in Identities |->
                    [ledger[i] EXCEPT
                        !.credit = Min(@ + d * RefillPerTick, BurstUnits),
                        !.evicted = IF d >= Minute THEN FALSE ELSE @]]
    /\ UNCHANGED <<enabled, mu, req>>
    /\ UNCHANGED <<storeVars, authVars, metricsVars, serveVars>>

HalfSecondPasses ==
    /\ fineTicks < MaxFineTicks
    /\ fineTicks' = fineTicks + 1
    /\ Pass(1)

MinutePasses ==
    /\ fineTicks' = fineTicks
    /\ Pass(Minute)

LimiterNext ==
    \/ \E r \in Requests, ip \in OneIdentity : Arrive(r, ip)
    \/ \E r \in Requests : Lock(r)
    \/ \E r \in Requests : Lookup(r)
    \/ \E r \in Requests : Create(r)
    \/ \E r \in Requests : Touch(r)
    \/ \E r \in Requests : Allow(r)
    \/ \E r \in Requests : UnlockDeny(r)
    \/ \E r \in Requests : RateLimitExceeded(r)
    \/ \E r \in Requests : UnlockAdmit(r)
    \/ \E r \in Requests : ServeNext(r)
    \/ \E r \in Requests : HandlerDone(r)
    \/ Wake
    \/ SweepLock
    \/ Sweep
    \/ SweepUnlock
    \/ HalfSecondPasses
    \/ MinutePasses

SpecLimiter == LimiterInit /\ [][LimiterNext]_vars

\* Scheduling of the goroutines: time goes on, time.Sleep returns, a goroutine
\* that can run its next statement does so, and sync.Mutex hands mu to a
\* goroutine that keeps waiting for it (its starvation mode)
LimiterFairness ==
    /\ WF_vars(MinutePasses)
    /\ WF_vars(Wake)
    /\ SF_vars(SweepLock)
    /\ WF_vars(Sweep)
    /\ WF_vars(SweepUnlock)
    /\ \A r \in Requests :
          /\ WF_vars(Lookup(r))
          /\ WF_vars(Create(r))
          /\ WF_vars(Touch(r))
          /\ WF_vars(Allow(r))
          /\ WF_vars(UnlockDeny(r))
          /\ WF_vars(UnlockAdmit(r))

SpecLimiterLive == SpecLimiter /\ LimiterFairness

----------------------------------------------------------------------------
(* SpecRate: one request goroutine serving two identities, the sweep, and a  *)
(* clock under which the statements of the critical section take less than   *)
(* a minute.                                                                 *)

RateInit ==
    /\ enabled = TRUE
    /\ mu = "free"
    /\ clients = [i \in Identities |-> NoClient]
    /\ req = [r \in Requests |-> NoRequest]
    /\ sweeper = [pc |-> "sleep", slept |-> 0]
    /\ fineTicks = 0
    /\ burstCount = [i \in Identities |-> 0]
    /\ ledger = [i \in Identities |-> NoLedger]
    /\ StoreParked
    /\ AuthParked
    /\ MetricsParked
    /\ ServeParked

\* a minute passes, none of it between clients[ip].lastSeen = time.Now() and
\* clients[ip].limiter.Allow() of a request
MinutePassesOutsideCheck ==
    /\ \A r \in Requests : req[r].pc # "allow"
    /\ MinutePasses

RateNext ==
    \/ \E r \in OneRequest, ip \in Identities : Arrive(r, ip)
    \/ \E r \in OneRequest : Lock(r)
    \/ \E r \in OneRequest : Lookup(r)
    \/ \E r \in OneRequest : Create(r)
    \/ \E r \in OneRequest : Touch(r)
    \/ \E r \in OneRequest : Allow(r)
    \/ \E r \in OneRequest : UnlockDeny(r)
    \/ \E r \in OneRequest : RateLimitExceeded(r)
    \/ \E r \in OneRequest : UnlockAdmit(r)
    \/ \E r \in OneRequest : ServeNext(r)
    \/ \E r \in OneRequest : HandlerDone(r)
    \/ Wake
    \/ SweepLock
    \/ Sweep
    \/ SweepUnlock
    \/ HalfSecondPasses
    \/ MinutePassesOutsideCheck

SpecRate == RateInit /\ [][RateNext]_vars

----------------------------------------------------------------------------
(* The Authorization header, the tokens and the users *)

\* a header is a sequence of symbols: Space, or a word without spaces
Space == " "

Bearer == "Bearer"
Basic == "Basic"
\* plaintexts: one with a live authentication token row, one whose row has
\* expired, one of the right shape without a row, one of the wrong shape
StoredToken == "AAAAAAAAAAAAAAAAAAAAAAAAAA"
ExpiredToken == "EEEEEEEEEEEEEEEEEEEEEEEEEE"
UnknownToken == "UUUUUUUUUUUUUUUUUUUUUUUUUU"
ShortToken == "short"

Words == {"", Bearer, Basic, StoredToken, ExpiredToken, UnknownToken, ShortToken}

\* len(word) in bytes
ByteLen(w) ==
    CASE w = "" -> 0
      [] w = Bearer -> 6
      [] w = Basic -> 5
      [] w = ShortToken -> 5
      [] OTHER -> TokenBytes

RECURSIVE Join(_)
\* the header whose parts are ps: the parts with one Space between neighbours
Join(ps) ==
    LET sym(w) == IF w = "" THEN <<>> ELSE <<w>> IN
    IF ps = <<>> THEN <<>>
    ELSE IF Len(ps) = 1 THEN sym(Head(ps))
    ELSE sym(Head(ps)) \o <<Space>> \o Join(Tail(ps))

Headers == {Join(ps) : ps \in UNION {[1..n -> Words] : n \in 0..MaxParts}}

RECURSIVE SplitFrom(_, _)
SplitFrom(h, cur) ==
    IF h = <<>> THEN <<cur>>
    ELSE IF Head(h) = Space THEN <<cur>> \o SplitFrom(Tail(h), "")
    ELSE SplitFrom(Tail(h), cur \o Head(h))

\* strings.Split(authorizationHeader, " "): one part more than there are
\* spaces, empty parts included
Split(h) == SplitFrom(h, "")

NoCredentialNever(h) == FALSE

\* authorizationHeader == ""
NoCredential(h) == h = <<>>

\* len(headerParts) != 2 && headerParts[0] != "Bearer"
BadScheme(parts) == Len(parts) # 2 /\ parts[1] # Bearer

\* data.ValidateTokenPlaintext: the token is provided and TokenBytes long
ValidTokenPlaintext(token) == token # "" /\ ByteLen(token) = TokenBytes

\* the users table and the permissions each user holds
UserRows ==
    [id \in {1, 2} |->
        IF id = 1 THEN [activated |-> TRUE, permissions |-> {"movies:read"}]
        ELSE [activated |-> FALSE, permissions |-> {"movies:read"}]]

Owners == DOMAIN UserRows

\* the digest under which a token row is stored
Hash(token) == <<"sha256", token>>

\* the tokens table when user owner holds the two rows
TokenRows(owner) ==
    {[hash |-> Hash(StoredToken), userID |-> owner, scope |-> "authentication",
      expired |-> FALSE],
     [hash |-> Hash(ExpiredToken), userID |-> owner, scope |-> "authentication",
      expired |-> TRUE]}

\* UserModel.GetForToken(scope, token): the user of the unexpired row of that
\* hash and scope, or ErrRecordNotFound
GetForToken(scope, token, owner) ==
    LET rows == {t \in TokenRows(owner) :
                    t.hash = Hash(token) /\ t.scope = scope /\ ~t.expired}
    IN  IF rows = {} THEN [err |-> ErrRecordNotFound, user |-> NoUser]
        ELSE LET t == CHOOSE t \in rows : TRUE
             IN  [err |-> Nil,
                  user |-> [id |-> t.userID, activated |-> UserRows[t.userID].activated]]

\* PermissionModel.GetAllForUser(user.ID)
GetAllForUser(id) == IF id \in DOMAIN UserRows THEN UserRows[id].permissions ELSE {}

\* user.IsAnonymous()
IsAnonymous(u) == u = AnonymousUser

InactiveNever(u) == FALSE

\* !user.Activated
Inactive(u) == ~u.activated

\* permissions.Include(code)
Include(permissions, code) == code \in permissions

\* the status each response helper writes
StatusOf(resp) ==
    CASE resp = "invalidAuthenticationToken" -> StatusUnauthorized
      [] resp = "authenticationRequired" -> StatusUnauthorized
      [] resp = "inactiveAccount" -> StatusForbidden
      [] resp = "notPermitted" -> StatusForbidden
      [] resp = "serverError" -> StatusInternalServerError
      [] OTHER -> StatusOK

LookupFailureLeaksNotFound(err) == IF err = ErrRecordNotFound THEN "notFound" ELSE "serverError"

\* switch { case errors.Is(err, data.ErrRecordNotFound): ...; default: ... }
LookupFailure(err) ==
    IF err = ErrRecordNotFound THEN "invalidAuthenticationToken" ELSE "serverError"

\* the routes: what guards the handler, and the permission code required
Routes ==
    {[guard |-> "none", code |-> ""],
     [guard |-> "authenticated", code |-> ""],
     [guard |-> "activated", code |-> ""],
     [guard |-> "permission", code |-> "movies:read"],
     [guard |-> "permission", code |-> "movies:write"]}

\* requireAuthenticatedUser(next)
RequireAuthenticatedUser(next) == <<"authenticated">> \o next

\* requireActivatedUser(next): return app.requireAuthenticatedUser(fn)
RequireActivatedUser(next) == RequireAuthenticatedUser(<<"activated">> \o next)

RequirePermissionBeforeActivated(next) ==
    RequireAuthenticatedUser(<<"permission", "activated">> \o next)

\* requirePermission(code, next): return app.requireActivatedUser(fn)
RequirePermission(next) == RequireActivatedUser(<<"permission">> \o next)

\* the handlers a request to the route runs through after authenticate
Chain(route) ==
    CASE route.guard = "authenticated" -> RequireAuthenticatedUser(<<"handler">>)
      [] route.guard = "activated" -> RequireActivatedUser(<<"handler">>)
      [] route.guard = "permission" -> RequirePermission(<<"handler">>)
      [] OTHER -> <<"handler">>

----------------------------------------------------------------------------
(* Actions of SpecAuth: one request at a time through authenticate, the      *)
(* guards of its route and the route's handler                               *)

AuthInit ==
    /\ auth = NoAuth
    /\ StoreParked
    /\ LimiterParked
    /\ MetricsParked
    /\ ServeParked

\* a response helper writes its status and body, and the handler returns
Respond(a, resp) ==
    [a EXCEPT !.resp = resp, !.status = StatusOf(resp), !.pc = "done"]

\* a request with some Authorization header arrives for some route, while the
\* token rows belong to some user
Serve ==
    /\ auth.pc = "idle"
    /\ \E h \in Headers, route \in Routes, owner \in Owners :
          auth' = [NoAuth EXCEPT !.pc = "authenticate", !.header = h,
                                !.route = route, !.owner = owner]
    /\ UNCHANGED <<storeVars, limiterVars, metricsVars, serveVars>>

\* the handler returned by authenticate, up to its call of next.ServeHTTP
Authenticate ==
    /\ auth.pc = "authenticate"
    /\ LET h == auth.header
           headerParts == Split(h)
           onward(u) == [auth EXCEPT !.user = u, !.pc = "next",
                                     !.rest = Chain(auth.route)]
       IN  IF NoCredential(h)
           THEN auth' = onward(AnonymousUser)
           ELSE IF BadScheme(headerParts)
           THEN auth' = Respond(auth, "invalidAuthenticationToken")
           ELSE IF Len(headerParts) < 2
           THEN \* headerParts[1]: index out of range
                auth' = [auth EXCEPT !.pc = "panic"]
           ELSE LET token == headerParts[2]
                    looked == [auth EXCEPT !.tokenLookups = @ + 1]
                    res == GetForToken("authentication", token, auth.owner)
                IN  IF ~ValidTokenPlaintext(token)
                    THEN auth' = Respond(auth, "invalidAuthenticationToken")
                    ELSE \/ /\ res.err = Nil
                            /\ auth' = [looked EXCEPT !.user = res.user, !.pc = "next",
                                                      !.rest = Chain(auth.route)]
                         \/ /\ res.err # Nil
                            /\ auth' = Respond(looked, LookupFailure(res.err))
                         \/ \* the query itself fails
                            auth' = Respond([looked EXCEPT !.dbFailed = TRUE],
                                            LookupFailure(ErrDeadline))
    /\ UNCHANGED <<storeVars, limiterVars, metricsVars, serveVars>>

\* the handler returned by requireAuthenticatedUser
AuthenticatedGuard ==
    /\ auth.pc = "next"
    /\ Head(auth.rest) = "authenticated"
    /\ LET a == [auth EXCEPT !.ran = Append(@, "authenticated")] IN
       auth' = IF IsAnonymous(a.user)
               THEN Respond(a, "authenticationRequired")
               ELSE [a EXCEPT !.rest = Tail(@)]
    /\ UNCHANGED <<storeVars, limiterVars, metricsVars, serveVars>>

\* fn of requireActivatedUser
ActivatedGuard ==
    /\ auth.pc = "next"
    /\ Head(auth.rest) = "activated"
    /\ LET a == [auth EXCEPT !.ran = Append(@, "activated")] IN
       auth' = IF Inactive(a.user)
               THEN Respond(a, "inactiveAccount")
               ELSE [a EXCEPT !.rest = Tail(@)]
    /\ UNCHANGED <<storeVars, limiterVars, metricsVars, serveVars>>

\* fn of requirePermission
PermissionGuard ==
    /\ auth.pc = "next"
    /\ Head(auth.rest) = "permission"
    /\ LET a == [auth EXCEPT !.ran = Append(@, "permission"),
                             !.permLookups = @ + 1]
           permissions == GetAllForUser(a.user.id)
       IN  \/ auth' = IF ~Include(permissions, a.route.code)
                      THEN Respond(a, "notPermitted")
                      ELSE [a EXCEPT !.rest = Tail(@)]
           \/ \* the query fails
              auth' = Respond([a EXCEPT !.dbFailed = TRUE], "serverError")
    /\ UNCHANGED <<storeVars, limiterVars, metricsVars, serveVars>>

\* the route's own handler
RouteHandler ==
    /\ auth.pc = "next"
    /\ Head(auth.rest) = "handler"
    /\ auth' = [auth EXCEPT !.ran = Append(@, "handler"), !.served = @ + 1,
                            !.resp = "ok", !.status = StatusOK, !.pc = "done"]
    /\ UNCHANGED <<storeVars, limiterVars, metricsVars, serveVars>>

\* the deferred function of recoverPanic: recover(), Connection: close and
\* serverErrorResponse
Recover ==
    /\ auth.pc = "panic"
    /\ auth' = Respond([auth EXCEPT !.panicked = TRUE], "serverError")
    /\ UNCHANGED <<storeVars, limiterVars, metricsVars, serveVars>>

\* the outermost ServeHTTP returns; the next request can be taken
Finished ==
    /\ auth.pc = "done"
    /\ auth' = NoAuth
    /\ UNCHANGED <<storeVars, limiterVars, metricsVars, serveVars>>

AuthNext ==
    \/ Serve
    \/ Authenticate
    \/ AuthenticatedGuard
    \/ ActivatedGuard
    \/ PermissionGuard
    \/ RouteHandler
    \/ Recover
    \/ Finished

SpecAuth == AuthInit /\ [][AuthNext]_vars

----------------------------------------------------------------------------
(* recoverPanic and metrics around rateLimiter.  app.routes() wraps the      *)
(* router as recoverPanic(metrics(enableCORS(rateLimiter(authenticate(...))))): *)
(* a panic below rateLimiter unwinds through rateLimiter and metrics and is  *)
(* recovered by the deferred function of recoverPanic.                       *)

\* the deferred function without w.Header().Set("Connection", "close")
RecoveredKeepAlive(q) ==
    [q EXCEPT !.pc = "recovered", !.status = StatusInternalServerError]

\* if err := recover(); err != nil { w.Header().Set("Connection", "close");
\* app.serverErrorResponse(w, r, ...) }
Recovered(q) ==
    [q EXCEPT !.pc = "recovered", !.status = StatusInternalServerError,
              !.connClose = TRUE]

\* the pcs at which a request is out of the chain of handlers
Outside == {"idle", "counted", "recovered"}

InChain(r) == req[r].pc \notin Outside

ChainInit ==
    /\ enabled = TRUE
    /\ mu = "free"
    /\ clients = [i \in Identities |-> NoClient]
    /\ req = [r \in Requests |-> NoRequest]
    /\ sweeper = [pc |-> "off", slept |-> 0]
    /\ fineTicks = 0
    /\ burstCount = [i \in Identities |-> 0]
    /\ ledger = [i \in Identities |-> NoLedger]
    /\ totalRequestsReceived = 0
    /\ totalResponsesSent = 0
    /\ totalResponsesSentByStatus = [c \in StatusCodes |-> 0]
    /\ StoreParked
    /\ AuthParked
    /\ ServeParked

\* a request enters the chain: recoverPanic registers its deferred function,
\* metrics counts the request (totalRequestsReceived.Add(1)) and calls next,
\* and the request reaches rateLimiter
Received(r, ip) ==
    /\ req[r].pc \in Outside
    /\ totalRequestsReceived < MaxReceived
    /\ totalRequestsReceived' = totalRequestsReceived + 1
    /\ req' = [req EXCEPT ![r] = [NoRequest EXCEPT !.ip = ip,
                                     !.pc = AfterArrive(enabled)]]
    /\ UNCHANGED <<enabled, mu, clients, sweeper, fineTicks, burstCount, ledger>>
    /\ UNCHANGED <<totalResponsesSent, totalResponsesSentByStatus>>
    /\ UNCHANGED <<storeVars, authVars, serveVars>>

\* a handler below rateLimiter panics before it has written anything (as
\* authenticate does at headerParts[1] for a header of one word)
HandlerPanics(r) ==
    /\ req[r].pc = "handler"
    /\ req' = [req EXCEPT ![r].pc = "panic", ![r].panicked = TRUE]
    /\ UNCHANGED <<enabled, mu, clients, sweeper, fineTicks, burstCount, ledger>>
    /\ UNCHANGED <<storeVars, authVars, metricsVars, serveVars>>

\* the panic has unwound rateLimiter and metrics (neither defers anything):
\* the deferred function of recoverPanic answers the request
RecoverPanic(r) ==
    /\ req[r].pc = "panic"
    /\ req' = [req EXCEPT ![r] = Recovered(req[r])]
    /\ UNCHANGED <<enabled, mu, clients, sweeper, fineTicks, burstCount, ledger>>
    /\ UNCHANGED <<storeVars, authVars, metricsVars, serveVars>>

\* next.ServeHTTP(mw, r) has returned to metrics: totalResponsesSent.Add(1)
ResponseSent(r) ==
    /\ req[r].pc = "done"
    /\ totalResponsesSent' = totalResponsesSent + 1
    /\ req' = [req EXCEPT ![r].pc = "sent"]
    /\ UNCHANGED <<enabled, mu, clients, sweeper, fineTicks, burstCount, ledger>>
    /\ UNCHANGED <<totalRequestsReceived, totalResponsesSentByStatus>>
    /\ UNCHANGED <<storeVars, authVars, serveVars>>

\* totalResponsesSentByStatus.Add(strconv.Itoa(mw.statusCode), 1)
SentByStatus(r) ==
    /\ req[r].pc = "sent"
    /\ totalResponsesSentByStatus' =
          [totalResponsesSentByStatus EXCEPT ![req[r].status] = @ + 1]
    /\ req' = [req EXCEPT ![r].pc = "counted"]
    /\ UNCHANGED <<enabled, mu, clients, sweeper, fineTicks, burstCount, ledger>>
    /\ UNCHANGED <<totalRequestsReceived, totalResponsesSent>>
    /\ UNCHANGED <<storeVars, authVars, serveVars>>

ChainNext ==
    \/ \E r \in Requests, ip \in OneIdentity : Received(r, ip)
    \/ \E r \in Requests : Lock(r)
    \/ \E r \in Requests : Lookup(r)
    \/ \E r \in Requests : Create(r)
    \/ \E r \in Requests : Touch(r)
    \/ \E r \in Requests : Allow(r)
    \/ \E r \in Requests : UnlockDeny(r)
    \/ \E r \in Requests : RateLimitExceeded(r)
    \/ \E r \in Requests : UnlockAdmit(r)
    \/ \E r \in Requests : ServeNext(r)
    \/ \E r \in Requests : HandlerDone(r)
    \/ \E r \in Requests : HandlerPanics(r)
    \/ \E r \in Requests : RecoverPanic(r)
    \/ \E r \in Requests : ResponseSent(r)
    \/ \E r \in Requests : SentByStatus(r)

SpecChain == ChainInit /\ [][ChainNext]_vars

----------------------------------------------------------------------------
(* serve(): the goroutine of serve() runs ListenAndServe and then waits on   *)
(* shutdownError; the goroutine it starts registers for SIGINT and SIGTERM,  *)
(* waits for one, calls server.Shutdown under a 20-second context and sends  *)
(* the result on shutdownError.                                              *)

\* the goroutines run while the process does: a signal nobody registered for
\* kills it, and it exits once serve() has returned to main
Alive == process = "running" /\ main.pc # "returned"

\* signal.Notify(quit, syscall.SIGINT, syscall.SIGTERM) has been called
Registered == shut.pc \notin {"off", "notify"}

\* Server.Shutdown returns nil once no connection is active
IdleAlways(cs) == TRUE

Idle(cs) == \A k \in Conns : cs[k].st # "active"

\* <-ctx.Done() of context.WithTimeout(context.Background(), 20*time.Second)
DeadlineNever(g) == FALSE

DeadlinePassed(g) == g >= Grace

\* serve() after ListenAndServe returned ErrServerClosed
AfterServerClosedNoWait == "returned"

\* err = <-shutdownError
AfterServerClosed == "receive"

\* serve() after the receive: the nil of Shutdown is returned as well
ServeReturnAlwaysNil(err) == Nil

\* if err != nil { return err }; ...; return nil
ServeReturn(err) == err

ServeInit ==
    /\ main = [pc |-> "start", err |-> "none"]
    /\ shut = NoGoroutine
    /\ quit = 0
    /\ server = NoServer
    /\ conns = [k \in Conns |-> NoConn]
    /\ grace = 0
    /\ signals = 0
    /\ process = "running"
    /\ StoreParked
    /\ LimiterParked
    /\ AuthParked
    /\ MetricsParked

\* shutdownError := make(chan error); go func() { ... }()
Go ==
    /\ Alive
    /\ main.pc = "start"
    /\ main' = [main EXCEPT !.pc = "listen"]
    /\ shut' = [shut EXCEPT !.pc = "notify"]
    /\ UNCHANGED <<quit, server, conns, grace, signals, process>>
    /\ UNCHANGED <<storeVars, limiterVars, authVars, metricsVars>>

\* quit := make(chan os.Signal, 1); signal.Notify(quit, SIGINT, SIGTERM)
Notify ==
    /\ Alive
    /\ shut.pc = "notify"
    /\ shut' = [shut EXCEPT !.pc = "wait"]
    /\ UNCHANGED <<main, quit, server, conns, grace, signals, process>>
    /\ UNCHANGED <<storeVars, limiterVars, authVars, metricsVars>>

\* SIGINT or SIGTERM is sent to the process: os/signal puts it in quit if
\* there is room (a send that does not block); before signal.Notify the
\* signal has its default action, which ends the process
Signal ==
    /\ Alive
    /\ signals < MaxSignals
    /\ signals' = signals + 1
    /\ IF Registered
       THEN /\ quit' = Min(quit + 1, QuitCap)
            /\ UNCHANGED process
       ELSE /\ process' = "killed"
            /\ UNCHANGED quit
    /\ UNCHANGED <<main, shut, server, conns, grace>>
    /\ UNCHANGED <<storeVars, limiterVars, authVars, metricsVars>>

\* s := <-quit; ctx, cancel := context.WithTimeout(..., 20*time.Second);
\* server.Shutdown(ctx) is entered: the server is marked as shutting down and
\* its listener is closed
ReceiveSignal ==
    /\ Alive
    /\ shut.pc = "wait"
    /\ quit > 0
    /\ quit' = quit - 1
    /\ shut' = [shut EXCEPT !.pc = "draining"]
    /\ server' = [listener |-> IF server.listener = "open" THEN "closed"
                               ELSE server.listener,
                  inShutdown |-> TRUE]
    /\ conns' = [k \in Conns |->
                    [conns[k] EXCEPT !.early = (conns[k].st = "active")]]
    /\ grace' = 0
    /\ UNCHANGED <<main, signals, process>>
    /\ UNCHANGED <<storeVars, limiterVars, authVars, metricsVars>>

\* Shutdown finds every connection idle and returns nil
ShutdownIdle ==
    /\ Alive
    /\ shut.pc = "draining"
    /\ Idle(conns)
    /\ shut' = [pc |-> "send", err |-> Nil]
    /\ UNCHANGED <<main, quit, server, conns, grace, signals, process>>
    /\ UNCHANGED <<storeVars, limiterVars, authVars, metricsVars>>

\* the context of Shutdown expires with a connection still active: Shutdown
\* returns ctx.Err()
ShutdownTimeout ==
    /\ Alive
    /\ shut.pc = "draining"
    /\ ~Idle(conns)
    /\ DeadlinePassed(grace)
    /\ shut' = [pc |-> "send", err |-> ErrDeadline]
    /\ UNCHANGED <<main, quit, server, conns, grace, signals, process>>
    /\ UNCHANGED <<storeVars, limiterVars, authVars, metricsVars>>

\* time passes while Shutdown waits
GracePasses ==
    /\ Alive
    /\ shut.pc = "draining"
    /\ grace < Grace
    /\ grace' = Min(grace + SecondsPerStep, Grace)
    /\ UNCHANGED <<main, shut, quit, server, conns, signals, process>>
    /\ UNCHANGED <<storeVars, limiterVars, authVars, metricsVars>>

\* server.ListenAndServe(): net.Listen fails (the address is in use, say) and
\* serve() returns the error
ListenFails ==
    /\ Alive
    /\ main.pc = "listen"
    /\ ~server.inShutdown
    /\ main' = [pc |-> "returned", err |-> ErrListen]
    /\ UNCHANGED <<shut, quit, server, conns, grace, signals, process>>
    /\ UNCHANGED <<storeVars, limiterVars, authVars, metricsVars>>

\* server.ListenAndServe(): the listener is open and connections are accepted
Listen ==
    /\ Alive
    /\ main.pc = "listen"
    /\ ~server.inShutdown
    /\ server' = [server EXCEPT !.listener = "open"]
    /\ main' = [main EXCEPT !.pc = "serving"]
    /\ UNCHANGED <<shut, quit, conns, grace, signals, process>>
    /\ UNCHANGED <<storeVars, limiterVars, authVars, metricsVars>>

\* ListenAndServe returns http.ErrServerClosed as soon as Shutdown was
\* called (at once if that was before it): serve() goes on to the receive
ServerClosed ==
    /\ Alive
    /\ main.pc \in {"listen", "serving"}
    /\ server.inShutdown
    /\ main' = IF AfterServerClosed = "receive"
               THEN [main EXCEPT !.pc = "receive"]
               ELSE [pc |-> "returned", err |-> Nil]
    /\ UNCHANGED <<shut, quit, server, conns, grace, signals, process>>
    /\ UNCHANGED <<storeVars, limiterVars, authVars, metricsVars>>

\* shutdownError <- server.Shutdown(ctx) meets err = <-shutdownError (the
\* channel has no buffer), and serve() returns
Receive ==
    /\ Alive
    /\ main.pc = "receive"
    /\ shut.pc = "send"
    /\ main' = [pc |-> "returned", err |-> ServeReturn(shut.err)]
    /\ shut' = [shut EXCEPT !.pc = "exited"]
    /\ UNCHANGED <<quit, server, conns, grace, signals, process>>
    /\ UNCHANGED <<storeVars, limiterVars, authVars, metricsVars>>

\* the server accepts a connection and starts the request on it
Accept(k) ==
    /\ Alive
    /\ server.listener = "open"
    /\ conns[k].st = "none"
    /\ conns' = [conns EXCEPT ![k].st = "active"]
    /\ UNCHANGED <<main, shut, quit, server, grace, signals, process>>
    /\ UNCHANGED <<storeVars, limiterVars, authVars, metricsVars>>

\* the handler of a request returns and its response is written: in time if
\* Shutdown has not given up waiting, late otherwise
RequestDone(k) ==
    /\ Alive
    /\ conns[k].st = "active"
    /\ conns' = [conns EXCEPT ![k].st =
                    IF shut.err = ErrDeadline THEN "late" ELSE "delivered"]
    /\ UNCHANGED <<main, shut, quit, server, grace, signals, process>>
    /\ UNCHANGED <<storeVars, limiterVars, authVars, metricsVars>>

ServeNextActions ==
    \/ Go
    \/ Notify
    \/ Signal
    \/ ReceiveSignal
    \/ ShutdownIdle
    \/ ShutdownTimeout
    \/ GracePasses
    \/ ListenFails
    \/ Listen
    \/ ServerClosed
    \/ Receive
    \/ \E k \in Conns : Accept(k)
    \/ \E k \in Conns : RequestDone(k)

SpecServe == ServeInit /\ [][ServeNextActions]_vars

\* Scheduling: a goroutine that can run its next statement does so, time goes
\* on, and ListenAndServe either fails or listens.  Nothing makes a request
\* finish, a connection arrive or a signal be sent.
ServeFairness ==
    /\ WF_vars(Go)
    /\ WF_vars(Notify)
    /\ WF_vars(ReceiveSignal)
    /\ WF_vars(ShutdownIdle)
    /\ WF_vars(ShutdownTimeout)
    /\ WF_vars(GracePasses)
    /\ WF_vars(ListenFails \/ Listen)
    /\ WF_vars(ServerClosed)
    /\ WF_vars(Receive)

SpecServeLive == SpecServe /\ ServeFairness

----------------------------------------------------------------------------
(* Properties of the versioned store *)

Returned(p, op) == call[p].op = op /\ call[p].pc = "returned"

\* the store's answer was read before the context's deadline
InTime(p) == ~call[p].timedOut

\* two finished Update calls of different callers carrying the same id and
\* the same observed version
SameUpdate(p, q) ==
    /\ p # q
    /\ Returned(p, "Update") /\ Returned(q, "Update")
    /\ call[p].arg.ID = call[q].arg.ID
    /\ call[p].arg.Version = call[q].arg.Version

\* C1: two Update calls carrying the same id and the same observed version N
\* never both return nil; when the row was at version N as one of them reached
\* the store and both were answered within their deadline, that one returns
\* nil with movie.Version = N+1 and the other returns ErrEditConflict.
C1_OneOfTwoUpdatesWins ==
    \A p \in Callers, q \in Callers :
        SameUpdate(p, q) =>
            /\ ~(call[p].err = Nil /\ call[q].err = Nil)
            /\ (call[p].exec = "hit" /\ InTime(p) /\ InTime(q)) =>
                  /\ call[p].err = Nil
                  /\ call[p].movie.Version = call[p].arg.Version + 1
                  /\ call[q].err = ErrEditConflict
                  /\ call[q].movie.Version = call[q].arg.Version

\* the two calls were pending together, one won and the other lost
C1_Witness ==
    \E p \in Callers, q \in Callers :
        /\ SameUpdate(p, q)
        /\ call[p].raced /\ call[p].exec = "hit"
        /\ call[p].err = Nil /\ call[p].movie.Version = call[p].arg.Version + 1
        /\ call[q].err = ErrEditConflict

RowMatches(id, version) ==
    id \in IDs /\ movies[id].present /\ movies[id].version = version

\* p's Update statement is executed by the store in this step
UpdateRuns(p) ==
    call[p].op = "Update" /\ call[p].pc = "sent" /\ call'[p].pc = "answered"

\* p's Update returns nil in this step
UpdateSucceeds(p) ==
    call[p].op = "Update" /\ InFlight(call[p])
        /\ call'[p].pc = "returned" /\ call'[p].err = Nil

C2_Step ==
    /\ \A i \in IDs :
          \* a stored version moves by 0 or by 1, and a deleted id stays deleted
          /\ (movies[i].present /\ movies'[i].present) =>
                movies'[i].version \in {movies[i].version, movies[i].version + 1}
          /\ (~movies[i].present /\ movies'[i].present) =>
                i = nextID /\ movies'[i].version = InitialVersion
    /\ \A p \in Callers :
          /\ UpdateRuns(p) =>
                IF RowMatches(call[p].arg.ID, call[p].arg.Version)
                THEN /\ movies'[call[p].arg.ID].version = call[p].arg.Version + 1
                     /\ call'[p].exec = "hit"
                ELSE /\ movies' = movies
                     /\ call'[p].exec = "miss"
          /\ UpdateSucceeds(p) =>
                /\ call[p].exec = "hit"
                /\ call'[p].movie.Version = call[p].arg.Version + 1

\* C2: in every step a stored version stays or grows by exactly 1 (a deleted id
\* is never stored again); an Update statement raises the version by 1 exactly
\* when id and version match and changes nothing otherwise, so a stale version
\* never succeeds; an Update that returns nil has matched and leaves N+1 in
\* the caller's movie.Version.
C2_VersionGrowsByOne == [][C2_Step]_vars

\* an Update returned nil with N+1, and the caller's follow-up Update carrying
\* that N+1 returned nil with N+2
C2_Witness ==
    \E p \in Callers :
        /\ Returned(p, "Update") /\ call[p].chained /\ call[p].err = Nil
        /\ call[p].arg.Version = InitialVersion + 1
        /\ call[p].movie.Version = InitialVersion + 2
        /\ movies[call[p].arg.ID].version = InitialVersion + 2

C3_Step ==
    \A p \in Callers :
        /\ (UpdateRuns(p) /\ ~RowMatches(call[p].arg.ID, call[p].arg.Version)) =>
              /\ movies' = movies /\ nextID' = nextID
              /\ call'[p].exec = "miss"
              /\ call'[p].movie = call[p].movie
        /\ (call[p].op = "Update" /\ call[p].exec = "miss"
               /\ call[p].pc = "answered" /\ call'[p].pc = "returned") =>
              /\ call'[p].err # Nil
              /\ ~call'[p].timedOut => call'[p].err = ErrEditConflict
              /\ call'[p].movie.Version = call[p].arg.Version
              /\ movies' = movies

\* C3: an Update whose id and observed version match no stored row (the row
\* was changed or deleted) leaves every stored row and the caller's
\* movie.Version as they were and never returns nil: it returns
\* ErrEditConflict when the store's answer is read within the deadline.
C3_NoMatchIsConflict == [][C3_Step]_vars

\* a row was inserted and deleted, and an Update of it returned ErrEditConflict
C3_Witness ==
    \E p \in Callers :
        /\ Returned(p, "Update") /\ call[p].exec = "miss"
        /\ call[p].err = ErrEditConflict
        /\ call[p].arg.ID < nextID /\ ~movies[call[p].arg.ID].present
        /\ call[p].movie.Version = call[p].arg.Version

\* p's Delete statement is executed by the store in this step
DeleteRuns(p) ==
    call[p].op = "Delete" /\ call[p].pc = "sent" /\ call'[p].pc = "answered"

C4_Step ==
    \A p \in Callers :
        /\ DeleteRuns(p) =>
              IF call[p].id \in IDs /\ movies[call[p].id].present
              THEN /\ movies' = [movies EXCEPT ![call[p].id] = NoRow]
                   /\ call'[p].exec = "hit"
              ELSE /\ movies' = movies
                   /\ call'[p].exec = "miss"
        /\ (call[p].op = "Delete" /\ call[p].pc = "answered"
               /\ call'[p].pc = "returned" /\ ~call'[p].timedOut) =>
              /\ call[p].exec = "hit" => call'[p].err = Nil
              /\ call[p].exec = "miss" => call'[p].err = ErrRecordNotFound
              /\ movies' = movies
        \* id < 1: no statement is sent
        /\ (CanCall(call[p]) /\ call'[p] # call[p]
               /\ call'[p].op = "Delete" /\ call'[p].id < 1) =>
              /\ call'[p].pc = "returned"
              /\ call'[p].err = ErrRecordNotFound
              /\ movies' = movies
        /\ ErrRecordNotFound # ErrEditConflict

\* C4: a Delete statement removes the row with that id at whatever version it
\* is and touches no other row, and the call then returns nil; with no such
\* row (never inserted, already deleted, id < 1) the store is unchanged and the
\* call returns ErrRecordNotFound, which is not ErrEditConflict.
C4_DeleteByIDOnly == [][C4_Step]_vars

\* a row at a version above 1 was deleted (nil), and a second Delete of the
\* same id returned ErrRecordNotFound
C4_Witness ==
    \E p \in Callers, q \in Callers :
        /\ Returned(p, "Delete") /\ call[p].err = Nil /\ call[p].seen > InitialVersion
        /\ Returned(q, "Delete") /\ call[q].err = ErrRecordNotFound
        /\ call[q].exec = "miss" /\ call[q].id = call[p].id

\* C5: a Get whose SELECT found the row returns it (nil error, the stored
\* payload and version), and a Get returns ErrRecordNotFound exactly when no
\* row with that id exists.
C5_GetReturnsStoredRecord ==
    \A p \in Callers :
        (Returned(p, "Get") /\ InTime(p)) =>
            /\ call[p].exec = "hit" =>
                  /\ call[p].err = Nil
                  /\ call[p].movie = [ID |-> call[p].id,
                                      Version |-> call[p].ans.version,
                                      payload |-> call[p].ans.payload]
            /\ call[p].err = ErrRecordNotFound <=> call[p].exec # "hit"

\* C6: a pending store call is never older than the 3 seconds of its context,
\* and a call ended by the deadline has returned an error that is not nil, not
\* ErrEditConflict and not ErrRecordNotFound.
C6_DeadlineBoundsEveryCall ==
    \A p \in Callers :
        /\ InFlight(call[p]) =>
              /\ call[p].deadline = StoreTimeout
              /\ elapsed[p] <= StoreTimeout
        /\ call[p].timedOut =>
              /\ call[p].pc = "returned"
              /\ call[p].err \notin {Nil, ErrEditConflict, ErrRecordNotFound}

\* an Update was applied by the store, but its answer came too late: the call
\* returned the timeout error
C6_Witness ==
    \E p \in Callers :
        /\ Returned(p, "Update") /\ call[p].timedOut /\ call[p].exec = "hit"
        /\ call[p].err = ErrDeadline

----------------------------------------------------------------------------
(* Properties of the rate limiter *)

\* the check of request r is being made by this step
Checks(r) == req[r].pc = "allow" /\ req'[r].pc # "allow"

C7_Bucket ==
    /\ \A i \in Identities :
          /\ clients[i].tokens \in 0..BurstUnits
          /\ Advance(clients[i]) \in 0..BurstUnits
          /\ burstCount[i] <= Burst
    /\ \A r \in Requests :
          (req[r].pc = "unlockDeny" /\ clients[req[r].ip].bornNow)
             => burstCount[req[r].ip] = Burst

C7_Step ==
    /\ \A r \in Requests :
          (req[r].pc = "create" /\ req'[r].pc # "create") =>
              /\ ~clients[req[r].ip].present
              /\ Advance(clients'[req[r].ip]) = BurstUnits
    /\ \A r \in Requests :
          Checks(r) =>
             LET e == clients[req[r].ip]
                 f == clients'[req[r].ip]
                 refilled == Min(e.tokens + e.lastAge * RefillPerTick, BurstUnits)
                 admitted == req'[r].allowed = "yes"
             IN  /\ req'[r].allowed \in {"yes", "no"}
                 /\ admitted <=> refilled >= UnitsPerToken
                 /\ admitted => f.tokens = refilled - UnitsPerToken /\ f.lastAge = 0
                 /\ ~admitted => Advance(f) = refilled
                 /\ e.lastAge >= HalfSecond => admitted

\* C7: each identity's limiter is a token bucket of rate Rate and burst Burst.
\* A new entry holds a full bucket; a check refills for the time since the last
\* refill, capped at the burst, is admitted iff a whole token is there and then
\* takes exactly one; the tokens stay within 0..Burst. An entry is created
\* only for an identity that has none. With 2/s and 4: a check denied on an
\* entry created at the same instant was preceded by exactly four admitted
\* ones, no entry admits more than four checks in one instant, and a check half
\* a second or more after the last refill is admitted.
C7_TokenBucket == [](C7_Bucket) /\ [][C7_Step]_vars

\* four checks admitted at one instant on a new entry and the fifth denied
C7_Witness ==
    \E r \in Requests :
        /\ req[r].pc = "unlockDeny"
        /\ clients[req[r].ip].bornNow
        /\ burstCount[req[r].ip] = Burst

\* C8: a denied request is answered 429 and next.ServeHTTP is never entered for
\* it; an admitted request enters next.ServeHTTP exactly once and is not
\* answered 429.
C8_DeniedNeverServed ==
    \A r \in Requests :
        /\ req[r].allowed = "no" =>
              /\ req[r].served = 0
              /\ req[r].pc \in {"unlockDeny", "respond429", "done"}
              /\ req[r].pc = "done" => req[r].status = StatusTooManyRequests
        /\ req[r].allowed = "yes" =>
              /\ req[r].served <= 1
              /\ req[r].pc \in {"handler", "done"} <=> req[r].served = 1
              /\ req[r].status # StatusTooManyRequests
        /\ req[r].status = StatusTooManyRequests => req[r].allowed = "no"

\* one request finished with 429 and never served, the other served once
C8_Witness ==
    \E r, q \in Requests :
        /\ req[r].pc = "done" /\ req[r].allowed = "no"
        /\ req[r].status = StatusTooManyRequests /\ req[r].served = 0
        /\ req[q].pc = "done" /\ req[q].allowed = "yes"
        /\ req[q].status = StatusOK /\ req[q].served = 1

\* C9: a request holds mu only from its Lock to its Unlock, between which it
\* looks up, creates and updates one entry; it never holds mu while
\* next.ServeHTTP or the 429 response runs, on the admit and on the deny path.
C9_MutexNotHeldDownstream ==
    \A r \in Requests :
        /\ mu = r <=> req[r].pc \in Critical
        /\ req[r].pc \in {"respond429", "next", "handler", "done", "panic"} => mu # r

\* two admitted requests run their downstream handlers at the same time
C9_Witness ==
    \E r, q \in Requests :
        /\ r # q
        /\ req[r].pc = "handler" /\ req[r].allowed = "yes"
        /\ req[q].pc = "handler" /\ req[q].allowed = "yes"
        /\ mu = "free"

\* the goroutines between their Lock and their Unlock
InCritical ==
    {r \in Requests : req[r].pc \in Critical}
        \cup (IF sweeper.pc \in {"sweep", "unlock"} THEN {"sweeper"} ELSE {})

\* C10: checks and sweeps exclude each other: at most one goroutine is between
\* Lock and Unlock, and it is the holder of mu. The one entry of an identity is
\* without lastSeen only while its creator is about to set it under mu, so no
\* other check and no sweep sees it so; no check finds its entry missing; all
\* checks of an identity made at one instant draw from the one bucket of its
\* entry, at most Burst of them admitted.
C10_ChecksAreAtomic ==
    /\ Cardinality(InCritical) <= 1
    /\ \A g \in InCritical : mu = g
    /\ \A i \in Identities :
          (clients[i].present /\ ~clients[i].touched) =>
              \E r \in Requests : req[r].pc = "touch" /\ req[r].ip = i /\ mu = r
    /\ sweeper.pc = "sweep" =>
          \A i \in Identities : clients[i].present => clients[i].touched
    /\ \A r \in Requests :
          /\ req[r].pc # "panic"
          /\ req[r].pc = "touch" => clients[req[r].ip].present
          /\ req[r].pc = "allow" =>
                clients[req[r].ip].present /\ clients[req[r].ip].touched
    /\ \A i \in Identities : burstCount[i] <= Burst

\* a first request has created the entry and not yet set lastSeen while a
\* second request of the same identity and the sweep wait for mu
C10_Witness ==
    \E r, q \in Requests :
        /\ r # q
        /\ req[r].ip = req[q].ip
        /\ req[r].pc = "touch" /\ ~clients[req[r].ip].touched
        /\ req[q].pc = "lock"
        /\ sweeper.pc = "lock"

----------------------------------------------------------------------------
(* Properties of the sweep *)

C11_Step ==
    /\ \A i \in Identities :
          (clients[i].present /\ ~clients'[i].present) => clients'[i] = NoClient
    /\ \A r \in Requests :
          (req[r].pc = "lookup" /\ req'[r].pc # "lookup" /\ ~clients[req[r].ip].present)
             => req'[r].pc = "create"
    /\ \A r \in Requests :
          (req[r].pc = "create" /\ req'[r].pc # "create") =>
              /\ clients'[req[r].ip].present
              /\ Advance(clients'[req[r].ip]) = BurstUnits
    /\ \A r \in Requests :
          (Checks(r) /\ clients[req[r].ip].present /\ clients[req[r].ip].touched
             /\ clients[req[r].ip].bornNow /\ burstCount[req[r].ip] = 0)
             => /\ req'[r].allowed = "yes"
                /\ clients'[req[r].ip].tokens = BurstUnits - UnitsPerToken

\* an entry whose lastSeen is more than 3 minutes old is removed, unless a new
\* check of the identity sets lastSeen first
C11_StaleIsRemoved ==
    \A i \in Identities :
        (clients[i].present /\ clients[i].lastSeenAge > StaleAfter)
            ~> (~clients[i].present \/ clients[i].lastSeenAge <= StaleAfter)

\* C11: an identity without a check for more than 3 minutes is eventually
\* removed by a sweep; a removed entry leaves nothing behind, the next check of
\* the identity creates a new entry, and its bucket is full: the first check on
\* it is admitted and leaves Burst - 1 tokens.
C11_StaleRemovedThenFresh == C11_StaleIsRemoved /\ [][C11_Step]_vars

\* a request was denied on a depleted bucket; the entry has gone since, and the
\* first check on the new entry has just been admitted from a full bucket
C11_Witness ==
    \E r, q \in Requests :
        /\ req[r].pc = "done" /\ req[r].allowed = "no"
        /\ req[q].ip = req[r].ip
        /\ req[q].pc = "unlockAdmit"
        /\ clients[req[q].ip].bornNow
        /\ burstCount[req[q].ip] = 1
        /\ clients[req[q].ip].tokens = BurstUnits - UnitsPerToken

C12_Step ==
    /\ \A r \in Requests :
          \* a check is made only after lastSeen was set by the same request
          /\ (req'[r].pc = "allow" /\ req[r].pc # "allow") =>
                /\ req[r].pc = "touch"
                /\ clients'[req[r].ip].lastSeenAge = 0
          \* the outcome of the check leaves lastSeen as it is
          /\ Checks(r) =>
                /\ req'[r].allowed \in {"yes", "no"}
                /\ clients'[req[r].ip].lastSeenAge = clients[req[r].ip].lastSeenAge
    /\ \A i \in Identities :
          /\ (clients[i].present /\ ~clients'[i].present) =>
                /\ sweeper.pc = "sweep" /\ sweeper'.pc = "unlock"
                /\ clients[i].lastSeenAge > StaleAfter
          /\ (sweeper.pc = "sweep" /\ sweeper'.pc # "sweep"
                /\ clients[i].present /\ clients[i].lastSeenAge <= StaleAfter)
                => clients'[i] = clients[i]

\* C12: every check, admitted or denied, is preceded by setting the entry's
\* lastSeen to now, and its outcome does not change lastSeen; an entry goes only
\* in a step of the sweep and only if its lastSeen is more than 3 minutes old;
\* the sweep leaves an entry seen within the last 3 minutes as it is.
C12_OnlyStaleSwept == [][C12_Step]_vars

\* a sweep has kept the entry of an identity whose latest check, a denied one,
\* was exactly 3 minutes ago
C12_Witness ==
    \E r \in Requests :
        /\ req[r].pc = "done" /\ req[r].allowed = "no"
        /\ sweeper.pc = "unlock"
        /\ clients[req[r].ip].present
        /\ clients[req[r].ip].lastSeenAge = StaleAfter
        /\ clients[req[r].ip].tokens = 0

----------------------------------------------------------------------------
(* Properties of the limiter.enabled flag *)

\* C13: with limiter.enabled false a request goes from the handler's entry
\* straight to next.ServeHTTP: it never takes mu, is never checked, never
\* answered 429, is served exactly once, and the map of clients stays empty.
C13_DisabledPassesAll ==
    ~enabled =>
        /\ \A i \in Identities : clients[i] = NoClient /\ burstCount[i] = 0
        /\ \A r \in Requests :
              /\ req[r].pc \in {"idle", "next", "handler", "done"}
              /\ req[r].allowed = "none"
              /\ req[r].status # StatusTooManyRequests
              /\ mu # r
              /\ req[r].pc \in {"handler", "done"} <=> req[r].served = 1
              /\ req[r].pc = "done" => req[r].status = StatusOK

\* with the limiter disabled both requests were served with no time passing
\* in between, and no entry exists
C13_Witness ==
    /\ ~enabled
    /\ \A r \in Requests : req[r].pc = "done" /\ req[r].served = 1
    /\ \A i \in Identities : ~clients[i].present
    /\ fineTicks = 0 /\ sweeper.slept = 0 /\ sweeper.pc = "sleep"

\* C14: with limiter.enabled false the sweep goroutine never runs its loop
\* body and never holds mu.
C14_NoSweepWhenDisabled ==
    ~enabled => (sweeper.pc \notin {"lock", "sweep", "unlock"} /\ mu # "sweeper")

----------------------------------------------------------------------------
(* Properties of authenticate *)

\* authenticate has handled the request: it responded, panicked or called next
PastAuthenticate == auth.pc \notin {"idle", "authenticate"}

\* authenticate called next.ServeHTTP
ReachedNext == auth.pc = "next" \/ auth.ran # <<>>

\* C15: a request without Authorization header gets the anonymous user without
\* a token lookup and is passed on to the next handler; authenticate neither
\* answers it with the invalid-token error nor panics.
C15_NoHeaderIsAnonymous ==
    (PastAuthenticate /\ auth.header = <<>>) =>
        /\ auth.user = AnonymousUser
        /\ auth.tokenLookups = 0
        /\ ReachedNext
        /\ auth.resp # "invalidAuthenticationToken"
        /\ auth.pc # "panic" /\ ~auth.panicked

\* a request without header was served by the handler of an open route
C15_Witness ==
    /\ auth.pc = "done" /\ auth.header = <<>>
    /\ auth.route.guard = "none"
    /\ auth.user = AnonymousUser
    /\ auth.served = 1 /\ auth.status = StatusOK

\* C16: a header of two parts whose first part is not "Bearer" is answered
\* with the invalid-token error: no token lookup, no user set, next not called.
C16_OtherSchemeRejected ==
    LET parts == Split(auth.header) IN
    (PastAuthenticate /\ Len(parts) = 2 /\ parts[1] # Bearer) =>
        /\ auth.resp = "invalidAuthenticationToken"
        /\ auth.status = StatusUnauthorized
        /\ auth.tokenLookups = 0
        /\ auth.user = NoUser
        /\ ~ReachedNext

\* the header has the shape "Bearer <token>": two parts, the first "Bearer",
\* the second not empty
BearerShape(h) ==
    LET parts == Split(h) IN
    Len(parts) = 2 /\ parts[1] = Bearer /\ parts[2] # ""

\* C17: a present header that has not the shape "Bearer <token>" is answered
\* with the invalid-token error (401): no panic, no server error, next not
\* called.
C17_MalformedHeaderIs401 ==
    (PastAuthenticate /\ auth.header # <<>> /\ ~BearerShape(auth.header)) =>
        /\ auth.pc # "panic" /\ ~auth.panicked
        /\ auth.resp = "invalidAuthenticationToken"
        /\ auth.status = StatusUnauthorized
        /\ ~ReachedNext

\* C18: with a header "Bearer <token>" the response is the one invalid-token
\* response (401, same helper, next not called) whether the token fails the
\* shape validation, has no row, or has an expired row; checked for lookups
\* that the database answers.
C18_SameFailureResponse ==
    \A t \in {ShortToken, UnknownToken, ExpiredToken} :
        (auth.pc = "done" /\ auth.header = <<Bearer, Space, t>> /\ ~auth.dbFailed) =>
            /\ auth.resp = "invalidAuthenticationToken"
            /\ auth.status = StatusUnauthorized
            /\ auth.user = NoUser
            /\ ~ReachedNext /\ auth.served = 0
            /\ ~auth.panicked

\* the token with the expired row was looked up and answered like a malformed one
C18_Witness ==
    /\ auth.pc = "done"
    /\ auth.header = <<Bearer, Space, ExpiredToken>>
    /\ auth.tokenLookups = 1 /\ ~auth.dbFailed
    /\ auth.resp = "invalidAuthenticationToken"

----------------------------------------------------------------------------
(* Properties of the authorization guards *)

\* the route's handler runs or has run
HandlerRuns ==
    \/ auth.served > 0
    \/ auth.pc = "next" /\ auth.rest # <<>> /\ Head(auth.rest) = "handler"

Authenticated(u) == u # NoUser /\ u # AnonymousUser

\* C19: the handler of a route under requirePermission(code, h) runs only for
\* a user that is not anonymous, is activated and holds the code; the handler
\* of a route under requireActivatedUser only for one not anonymous and
\* activated; under requireAuthenticatedUser only for one not anonymous.
C19_GuardsHoldWhenHandlerRuns ==
    HandlerRuns =>
        /\ auth.served <= 1
        /\ auth.route.guard \in {"authenticated", "activated", "permission"}
              => Authenticated(auth.user)
        /\ auth.route.guard \in {"activated", "permission"}
              => auth.user.activated
        /\ auth.route.guard = "permission"
              => auth.route.code \in UserRows[auth.user.id].permissions

\* the handler of a permission route ran for the activated user holding it
C19_Witness ==
    /\ auth.pc = "done" /\ auth.served = 1
    /\ auth.route = [guard |-> "permission", code |-> "movies:read"]
    /\ auth.user = [id |-> 1, activated |-> TRUE]

IsPrefix(p, q) == Len(p) <= Len(q) /\ p = SubSeq(q, 1, Len(p))

\* C20: the guards run in the order authenticated, activated, permission and
\* stop at the first failure, which is the one reported. On a permission route
\* an anonymous user gets authenticationRequired with no activation check and
\* no permission lookup; an authenticated inactive one gets inactiveAccount
\* with no permission lookup; notPermitted (403) goes only to an authenticated,
\* activated user lacking the code.
C20_FirstFailureReported ==
    /\ auth.route.guard = "permission"
          => IsPrefix(auth.ran, <<"authenticated", "activated", "permission", "handler">>)
    /\ auth.route.guard = "none" => IsPrefix(auth.ran, <<"handler">>)
    /\ auth.route.guard = "authenticated"
          => IsPrefix(auth.ran, <<"authenticated", "handler">>)
    /\ auth.route.guard = "activated"
          => IsPrefix(auth.ran, <<"authenticated", "activated", "handler">>)
    /\ (auth.pc = "done" /\ auth.route.guard = "permission") =>
          /\ auth.user = AnonymousUser =>
                /\ auth.resp = "authenticationRequired"
                /\ auth.status = StatusUnauthorized
                /\ auth.ran = <<"authenticated">>
                /\ auth.permLookups = 0
          /\ (Authenticated(auth.user) /\ ~auth.user.activated) =>
                /\ auth.resp = "inactiveAccount"
                /\ auth.ran = <<"authenticated", "activated">>
                /\ auth.permLookups = 0
          /\ (Authenticated(auth.user) /\ auth.user.activated /\ ~auth.dbFailed
                /\ auth.route.code \notin UserRows[auth.user.id].permissions) =>
                /\ auth.resp = "notPermitted"
                /\ auth.ran = <<"authenticated", "activated", "permission">>
    /\ auth.resp = "notPermitted" =>
          /\ auth.status = StatusForbidden
          /\ Authenticated(auth.user) /\ auth.user.activated
          /\ auth.route.code \notin UserRows[auth.user.id].permissions
    /\ auth.resp = "inactiveAccount" =>
          Authenticated(auth.user) /\ ~auth.user.activated
    /\ auth.resp = "authenticationRequired" => auth.user = AnonymousUser

\* an inactive user that lacks the code asked for a permission route and was
\* told that the account is inactive
C20_Witness ==
    /\ auth.pc = "done"
    /\ auth.route = [guard |-> "permission", code |-> "movies:write"]
    /\ auth.user = [id |-> 2, activated |-> FALSE]
    /\ auth.resp = "inactiveAccount"
    /\ auth.permLookups = 0

----------------------------------------------------------------------------
(* Properties of recoverPanic and metrics *)

\* C21: a panic raised in the handlers below recoverPanic is recovered by its
\* deferred function: the request is answered 500 with Connection: close and
\* leaves the chain there; the panicking goroutine does not hold mu, which is
\* held only inside the critical section of a request that has not panicked,
\* so the requests after it take the lock as before.
C21_PanicIsRecovered ==
    \A r \in Requests :
        /\ req[r].panicked => req[r].pc \in {"panic", "recovered"} /\ mu # r
        /\ req[r].pc = "panic" => req[r].panicked
        /\ req[r].pc = "recovered" =>
              /\ req[r].panicked
              /\ req[r].status = StatusInternalServerError
              /\ req[r].connClose
        /\ mu = r => req[r].pc \in Critical /\ ~req[r].panicked
        /\ mu \in Requests \cup {"free"}

\* a request was answered by recoverPanic, and a request received after it
\* holds mu
C21_Witness ==
    \E r, q \in Requests :
        /\ req[r].pc = "recovered" /\ req[r].connClose
        /\ req[r].status = StatusInternalServerError
        /\ totalRequestsReceived = MaxReceived
        /\ mu = q /\ req[q].pc = "allow"

SumByStatus ==
    totalResponsesSentByStatus[StatusOK]
  + totalResponsesSentByStatus[StatusTooManyRequests]
  + totalResponsesSentByStatus[StatusInternalServerError]

\* C27: total_responses_sent never exceeds total_requests_received, the
\* per-status counts add up to total_responses_sent, and with no request in
\* the chain the two totals are equal, panicked requests included.
C27_CountersAgree ==
    /\ totalResponsesSent <= totalRequestsReceived
    /\ SumByStatus = totalResponsesSent
    /\ (\A r \in Requests : ~InChain(r)) =>
          totalResponsesSent = totalRequestsReceived

\* what does hold of the counters: the totals are ordered, and they differ
\* from each other by the requests in the chain and the requests that
\* panicked
C27_CountersOrdered ==
    /\ SumByStatus <= totalResponsesSent
    /\ totalResponsesSent <= totalRequestsReceived
    /\ totalResponsesSent - SumByStatus
          = Cardinality({r \in Requests : req[r].pc = "sent"})

\* no request is in the chain, one panicked, and a response is missing from
\* total_responses_sent
C27_PanicUncounted ==
    /\ \A r \in Requests : ~InChain(r)
    /\ \E r \in Requests : req[r].pc = "recovered"
    /\ totalResponsesSent < totalRequestsReceived

----------------------------------------------------------------------------
(* Properties of serve() *)

ServeReturned == main.pc = "returned"

\* the shutdown goroutine has received a signal
SignalReceived == shut.pc \in {"draining", "send", "exited"}

\* C22: serve() returns nil exactly when a signal was received and every
\* request in flight finished before Shutdown gave up; it returns the
\* context's error when the 20 seconds passed with a request still running,
\* and the error of ListenAndServe, without waiting for a signal, when the
\* server did not start.
C22_ReturnValue ==
    ServeReturned =>
        /\ main.err \in {Nil, ErrDeadline, ErrListen}
        /\ main.err = Nil <=>
              /\ shut.pc = "exited"
              /\ \A k \in Conns : conns[k].st \notin {"active", "late"}
        /\ main.err = ErrDeadline <=>
              /\ shut.pc = "exited"
              /\ \E k \in Conns : conns[k].early /\ conns[k].st \in {"active", "late"}
        /\ main.err = ErrDeadline => grace >= Grace
        /\ main.err = ErrListen <=> ~SignalReceived
        /\ main.err = ErrListen => server = NoServer

\* serve() has returned the timeout of Shutdown, a request still running
C22_Witness ==
    /\ ServeReturned
    /\ main.err = ErrDeadline
    /\ \E k \in Conns : conns[k].st = "active"

\* C23: once the signal is received no connection is accepted, and serve()
\* does not return while a request that was in flight at the signal is
\* still running, unless the 20 seconds have passed (and then it returns the
\* timeout): with a nil return every such request has been answered.
C23_Step ==
    /\ \A k \in Conns :
          conns[k].st = "none" /\ conns'[k].st = "active" =>
              ~SignalReceived /\ ~server.inShutdown
    /\ ~ServeReturned /\ main'.pc = "returned" =>
          /\ (\E k \in Conns : conns[k].early /\ conns[k].st = "active") =>
                main'.err = ErrDeadline /\ grace >= Grace
          /\ main'.err = Nil =>
                \A k \in Conns :
                    /\ conns'[k].st \in {"none", "delivered"}
                    /\ conns[k].early => conns'[k].st = "delivered"

C24_ReturnsAfterShutdown ==
    /\ main.pc = "receive" => server.inShutdown /\ server.listener # "open"
    /\ ServeReturned /\ main.err = Nil =>
          /\ shut.pc = "exited"
          /\ shut.err = Nil
          /\ server.inShutdown
          /\ server.listener # "open"
    /\ shut.pc \in {"draining", "send"} => ~ServeReturned

\* the listener was open and is closed, the result of Shutdown was sent, and
\* serve() has returned nil
C24_Witness ==
    /\ ServeReturned
    /\ main.err = Nil
    /\ shut.pc = "exited"
    /\ server.listener = "closed"

\* C25: a signal sent at any moment after serve() is called is received by
\* the shutdown goroutine in the end (unless serve() has returned because the
\* server did not start).
C25_SignalNotLost ==
    (signals > 0) ~> (SignalReceived \/ main.err = ErrListen)

\* what holds: a signal sent after signal.Notify is kept in quit until the
\* goroutine receives it
C25_KeptOnceRegistered ==
    (quit > 0) ~> (SignalReceived \/ main.err = ErrListen)

\* C26: once the signal is received, Shutdown returns within its deadline,
\* its send on shutdownError meets the receive of serve(), and serve()
\* returns.
C26_ServeReturns ==
    (shut.pc \in {"draining", "send"}) ~> (ServeReturned /\ shut.pc = "exited")

\* the signal came before ListenAndServe had opened the listener, and serve()
\* has returned all the same
C26_Witness ==
    /\ ServeReturned
    /\ shut.pc = "exited"
    /\ server.listener = "none"
    /\ server.inShutdown

----------------------------------------------------------------------------
(* Properties of the rate across sweeps *)

\* ledger[i].credit is the content of a bucket of rate Rate and size Burst
\* that starts full, is refilled as time passes, gives a token for every
\* admitted check of i and is never removed.  It stays at zero or above
\* exactly when, for every window of length T, the checks of i admitted in
\* the window are at most Burst + Rate * T.
WithinRate == \A i \in Identities : ledger[i].credit >= 0

\* a step of a request leaves the entries of the other identities as they are
Isolated ==
    \A r \in Requests :
        req'[r] # req[r] =>
            \A j \in Identities : j # req'[r].ip => clients'[j] = clients[j]

============================================================================
